---- MODULE Spec2Model ----
(***************************************************************************)
(* Knowledge-base retrieval of the WhatsApp group bot:                     *)
(*   KnowledgeBaseAnswers (src/src/handler/knowledge_base_answers.py)      *)
(* hybrid_search, check_kb_health, filter_quality_topics,                  *)
(* validate_rephrased_query and the orchestrator __call__.                 *)
(*                                                                         *)
(* Strings are sequences of one-character strings, so that split, strip,   *)
(* lower, len and SQL LIKE are computed as the code computes them.         *)
(* Distances and confidences are in hundredths (0.4 is 40).                *)
(***************************************************************************)
EXTENDS Integers, Sequences, FiniteSets, TLC

\* ------------------------------------------------------------------ bounds
\* Largest number of rows of the kbtopic table.
MaxTopics == 3
\* Longest list filter_quality_topics is called with on its own.
MaxRows == 2
\* Deliveries to the webhook, handled one beside the other.
MaxDeliveries == 2
\* Calls that write the reaction table, one after the other.
MaxUpserts == 3
\* Largest max_retries get_user_groups_with_retry is called with.
MaxRetries == 4

\* ------------------------------------------------------- program constants
COSINE_DISTANCE_THRESHOLD == 40
MAX_QUERY_LENGTH == 500
MAX_TOPICS_TO_RETRIEVE == 15
KEYWORD_LIMIT == 5
MAX_KEYWORDS == 5
KEYWORD_DISTANCE == 30
KEYWORD_ONLY_PENALTY == 10
FINAL_LIMIT == 10
MIN_CONFIDENCE == 30
MIN_WORD_LEN == 2
MIN_REPHRASED_LEN == 3
MIN_REPHRASED_WORDS == 3
MIN_REPHRASED_CHARS == 10
MIN_SUBJECT_LEN == 3
MIN_SUMMARY_LEN == 10
\* if len(response_text) > 4000: the length Router.summarize cuts a reply to
MAX_RESPONSE_LENGTH == 4000
\* if confidence_score < 0.7 / elif confidence_score < 0.5, in hundredths
MODERATE_CONFIDENCE == 70
LOW_CONFIDENCE == 50
\* if message_age.total_seconds() > 300
MAX_MESSAGE_AGE == 300
\* deque(maxlen=1000)
CACHE_MAXLEN == 1000
\* if len(self.processed_messages) > 100
INSTANCE_CACHE_MAX == 100

\* ----------------------------------------------------------------- strings
\* Python None for an Optional[str]: a sequence no text equals.
None == <<"<None>">>

Space == {" ", "\n", "\t"}
\* Characters with ord(c) > 127 (Hebrew letters).
HighChars ==
    {"he_mem", "he_alef", "he_gimel", "he_resh", "he_kaf", "he_vav", "he_lamed",
     "he_mem_sofit", "he_samekh", "he_yod", "he_shin", "he_he", "he_het", "he_dalet"}

Lower(c) ==
    CASE c = "D" -> "d"
      [] c = "H" -> "h"
      [] c = "L" -> "l"
      [] c = "U" -> "u"
      [] OTHER -> c

\* str.lower()
ToLower(s) == [i \in DOMAIN s |-> Lower(s[i])]

RECURSIVE LStrip(_)
LStrip(s) == IF s # <<>> /\ Head(s) \in Space THEN LStrip(Tail(s)) ELSE s

RECURSIVE RStrip(_)
RStrip(s) ==
    IF s # <<>> /\ s[Len(s)] \in Space THEN RStrip(SubSeq(s, 1, Len(s) - 1)) ELSE s

\* str.strip()
Strip(s) == RStrip(LStrip(s))

\* The indices at which a maximal run of non-whitespace characters starts.
WordStarts(s) ==
    {i \in DOMAIN s : s[i] \notin Space /\ (i = 1 \/ s[i - 1] \in Space)}

\* The index at which the run that starts at i ends.
WordEnd(s, i) ==
    CHOOSE j \in i..Len(s) :
        /\ \A k \in i..j : s[k] \notin Space
        /\ (j = Len(s) \/ s[j + 1] \in Space)

\* str.split(): the maximal runs of non-whitespace characters, in order.
Split(s) ==
    LET starts == WordStarts(s)
    IN  [n \in 1..Cardinality(starts) |->
            LET i == CHOOSE k \in starts : Cardinality({m \in starts : m < k}) = n - 1
            IN  SubSeq(s, i, WordEnd(s, i))]

\* needle in hay
Contains(hay, needle) ==
    \E i \in 1..(Len(hay) - Len(needle) + 1) :
        SubSeq(hay, i, i + Len(needle) - 1) = needle

\* any(ord(c) > 127 for c in text)
HasHighChar(s) == \E i \in DOMAIN s : s[i] \in HighChars

\* bool(x) of an Optional[str]
Truthy(s) == s # None /\ s # <<>>

\* s[:n]
Take(s, n) == SubSeq(s, 1, IF Len(s) < n THEN Len(s) ELSE n)

Max(a, b) == IF a > b THEN a ELSE b
Abs(a) == IF a < 0 THEN -a ELSE a

\* ------------------------------------------------------------------- texts
W_how == <<"H", "o", "w">>
W_to == <<"t", "o">>
W_configure == <<"c", "o", "n", "f", "i", "g", "u", "r", "e">>
W_the == <<"t", "h", "e">>
W_Database == <<"D", "a", "t", "a", "b", "a", "s", "e">>
W_database == <<"d", "a", "t", "a", "b", "a", "s", "e">>
W_data == <<"d", "a", "t", "a">>
W_what == <<"w", "h", "a", "t">>
W_is == <<"i", "s">>
W_setup == <<"s", "e", "t", "u", "p">>
W_server == <<"s", "e", "r", "v", "e", "r">>
W_Lunch == <<"L", "u", "n", "c", "h">>
W_plans == <<"p", "l", "a", "n", "s">>
W_today == <<"t", "o", "d", "a", "y">>
W_friday == <<"f", "r", "i", "d", "a", "y">>
W_unclear == <<"u", "n", "c", "l", "e", "a", "r">>
W_Unclear == <<"U", "n", "c", "l", "e", "a", "r">>
W_ok == <<"o", "k">>
W_i == <<"i">>
W_cannot == <<"c", "a", "n", "n", "o", "t">>
W_hebrew == <<"he_mem", "he_alef", "he_gimel", "he_resh">>
SP == <<" ">>

\* Questions (message.text).
Q_db == W_how \o SP \o W_to \o SP \o W_configure \o SP \o W_the \o SP \o W_Database
Q_stop == W_what \o SP \o W_is \o SP \o W_the
Q_he == W_hebrew \o SP \o W_data
Questions == {None, <<>>, Q_db, Q_stop, Q_he}
\* A question longer than MAX_QUERY_LENGTH.
Q_long ==
    LET words == Q_db \o SP
        length == MAX_QUERY_LENGTH + Len(words)
    IN  Take([i \in 1..length |-> words[((i - 1) % Len(words)) + 1]], length)

\* Outputs of the rephrasing agent.
R_good == W_database \o SP \o W_setup
R_unclear == W_unclear
R_Unclear == SP \o W_Unclear \o SP
R_short == W_ok
R_word == W_today
R_long == W_Lunch \o SP \o W_plans \o SP \o W_today
R_cannot == W_i \o SP \o W_cannot
RephraserOutputs == {R_good, R_unclear, R_Unclear, R_short, R_word, R_long, R_cannot}
\* Strings validate_rephrased_query is called with on its own.
R_blank == SP \o SP \o SP
R_two_words == W_Lunch \o SP \o W_plans
R_three_short == W_ok \o SP \o W_to \o SP \o W_is
ValidateOriginals == {None, <<>>, Q_db, Q_stop, Q_he, W_Lunch \o SP \o W_friday}
ValidateRephrased == RephraserOutputs \cup {None, <<>>, R_blank, R_two_words, R_three_short}

\* Generated answers.
A_answer == W_Database \o SP \o W_setup
\* An answer one character longer than the length a reply is cut to elsewhere.
A_long == Take([i \in 1..(MAX_RESPONSE_LENGTH + 1) |-> "a"], MAX_RESPONSE_LENGTH + 1)
GeneratorOutputs == {A_answer, A_long}

\* Topic subjects and summaries.
S_db == W_Database \o SP \o W_setup
M_db == W_how \o SP \o W_to \o SP \o W_configure \o SP \o W_the \o SP \o W_server
S_lunch == W_Lunch \o SP \o W_plans
M_lunch == W_Lunch \o SP \o W_plans \o SP \o W_friday
S_short == W_ok
M_short == W_data
\* A summary of 11 characters of which 4 are left after trimming.
M_padded == SP \o SP \o SP \o SP \o W_data \o SP \o SP \o SP

\* Texts of webhook payloads. The number the webhook looks for, the phrases
\* Router._route looks for, and messages that hold them.
BotNumber == <<"9", "7", "2", "5", "1", "5", "0", "0", "4", "4", "2", "0">>
TagAllHe == <<"@", "he_kaf", "he_vav", "he_lamed", "he_mem_sofit">>
TagAllEn == <<"@", "e", "v", "e", "r", "y", "o", "n", "e">>
tag_all_phrases == {TagAllHe, TagAllEn}
SummaryHe == <<"he_samekh", "he_yod", "he_kaf", "he_vav", "he_mem_sofit">>
summarize_phrases ==
    { SummaryHe \o SP \o <<"he_yod", "he_vav", "he_mem", "he_yod">>,
      <<"d", "a", "i", "l", "y", " ", "s", "u", "m", "m", "a", "r", "y">>,
      <<"s", "u", "m", "m", "a", "r", "i", "z", "e">>,
      SummaryHe }
TaskTrigger ==
    <<"he_mem", "he_shin", "he_yod", "he_mem", "he_he", " ",
      "he_het", "he_dalet", "he_shin", "he_he">>
W_at_bot == <<"@">> \o BotNumber
T_plain == Q_db
T_question == W_at_bot \o SP \o Q_db
T_everyone == W_at_bot \o SP \o TagAllEn \o SP \o W_Lunch
T_summary == W_at_bot \o SP \o <<"D", "a", "i", "l", "y", " ", "s", "u", "m", "m", "a", "r", "y">>
T_task == W_at_bot \o SP \o TaskTrigger \o SP \o W_setup

\* A question of six keywords of which only the sixth is in a topic.
Q_many ==
    W_today \o SP \o W_unclear \o SP \o W_cannot \o SP \o W_Unclear \o SP \o W_today
        \o SP \o W_Lunch

\* Texts hybrid_search is called with directly.
SearchTexts == {Q_db, Q_stop, Q_he, Q_many}

\* ---------------------------------------------------------- rephrase check
generic_responses ==
    { <<"i", " ", "d", "o", "n", "'", "t", " ", "u", "n", "d", "e", "r", "s", "t", "a", "n", "d">>,
      W_unclear,
      <<"n", "o", " ", "q", "u", "e", "r", "y">>,
      <<"i", "n", "v", "a", "l", "i", "d">>,
      <<"n", "o", "t", " ", "c", "l", "e", "a", "r">>,
      <<"c", "a", "n", "n", "o", "t", " ", "d", "e", "t", "e", "r", "m", "i", "n", "e">>,
      W_i \o SP \o W_cannot,
      <<"u", "n", "a", "b", "l", "e", " ", "t", "o">> }

\* set(word.lower() for word in text.split() if len(word) > 2)
LongWords(text) ==
    LET ws == Split(text)
    IN  {ToLower(ws[i]) : i \in {j \in DOMAIN ws : Len(ws[j]) > MIN_WORD_LEN}}

\* The rule with the last test turned round: without a shared word a string
\* is refused only when it is short in words and short in characters.
validate_rephrased_query_BothShort(original, rephrased) ==
    IF ~Truthy(original) \/ ~Truthy(rephrased) \/ Len(Strip(rephrased)) < MIN_REPHRASED_LEN
    THEN FALSE
    ELSE IF Strip(ToLower(rephrased)) \in generic_responses
    THEN FALSE
    ELSE LET overlap == Cardinality(LongWords(original) \cap LongWords(rephrased))
         IN  overlap > 0
             \/ Len(Split(rephrased)) >= MIN_REPHRASED_WORDS
             \/ Len(rephrased) >= MIN_REPHRASED_CHARS

validate_rephrased_query(original, rephrased) ==
    IF ~Truthy(original) \/ ~Truthy(rephrased) \/ Len(Strip(rephrased)) < MIN_REPHRASED_LEN
    THEN FALSE
    ELSE IF Strip(ToLower(rephrased)) \in generic_responses
    THEN FALSE
    ELSE LET overlap == Cardinality(LongWords(original) \cap LongWords(rephrased))
         IN  overlap > 0
             \/ (Len(Split(rephrased)) >= MIN_REPHRASED_WORDS
                 /\ Len(rephrased) >= MIN_REPHRASED_CHARS)

\* ------------------------------------------------------------- topic store
\* Embedding vectors are the points 0..5; the cosine distance of two of them, in
\* hundredths, is a table over how far apart they are.
DistanceTable == <<0, 10, 20, 39, 40, 90>>
cosine_distance(u, v) == DistanceTable[Abs(u - v) + 1]

\* Embeddings the provider returns for a question.
QuestionVectors == {0, 1}

\* group_jid of a KBTopic row that has none (SQL NULL).
NULL == "NULL"

Topic(id, jid, subject, summary, embedding) ==
    [id |-> id, group_jid |-> jid, subject |-> subject, summary |-> summary,
     embedding |-> embedding]

\* The rows the kbtopic table is filled from: topics of the asking group A at
\* each distance, topics of a community sibling B and of an unrelated group C,
\* and an orphan.
TopicRows ==
    { Topic(1, "A@g.us", S_db, M_db, 0),
      Topic(2, "A@g.us", S_lunch, M_lunch, 1),
      Topic(3, "A@g.us", S_lunch, M_lunch, 2),
      Topic(4, "A@g.us", S_db, M_db, 3),
      Topic(5, "A@g.us", S_db, M_db, 4),
      Topic(6, "A@g.us", S_lunch, M_lunch, 5),
      Topic(7, "A@g.us", S_short, M_short, 0),
      Topic(8, "B@g.us", S_db, M_db, 0),
      Topic(9, "C@g.us", S_db, M_db, 0),
      Topic(10, NULL, S_db, M_db, 0) }

KBTopicTables == {t \in SUBSET TopicRows : Cardinality(t) <= MaxTopics}

Group(jid, managed, keys) ==
    [group_jid |-> jid, managed |-> managed, community_keys |-> keys]

\* The group table: A and B in one community and C on its own, all managed;
\* or the same groups with none managed and no community.
GroupTables ==
    { { Group("A@g.us", TRUE, {"k1"}), Group("B@g.us", TRUE, {"k1"}),
        Group("C@g.us", TRUE, {}) },
      { Group("A@g.us", FALSE, {}), Group("B@g.us", FALSE, {}),
        Group("C@g.us", FALSE, {}) } }

\* message.group of a message whose group is not loaded.
NoGroup == Group("None", FALSE, {})

\* ----------------------------------------------------------- hybrid_search
stop_words ==
    { <<"t", "h", "e">>, <<"a", "n", "d">>, <<"o", "r">>, <<"b", "u", "t">>, <<"i", "n">>,
      <<"o", "n">>, <<"a", "t">>, <<"t", "o">>, <<"f", "o", "r">>, <<"o", "f">>,
      <<"w", "i", "t", "h">>, <<"b", "y">>, <<"w", "h", "a", "t">>, <<"h", "o", "w">>,
      <<"w", "h", "e", "n">>, <<"w", "h", "e", "r", "e">>, <<"w", "h", "y">>,
      <<"w", "h", "o">> }

IsKeyword(word) == Len(Strip(word)) > MIN_WORD_LEN /\ ToLower(word) \notin stop_words

\* [word.strip().lower() for word in original_text.split() if ...]
Keywords(original_text) ==
    LET kept == SelectSeq(Split(original_text), IsKeyword)
    IN  [i \in DOMAIN kept |-> ToLower(Strip(kept[i]))]

RECURSIVE safe_keyword(_)
\* keyword.replace('%', r'\%').replace('_', r'\_')
safe_keyword(keyword) ==
    IF keyword = <<>> THEN <<>>
    ELSE (IF Head(keyword) \in {"%", "_"} THEN <<"\\", Head(keyword)>> ELSE <<Head(keyword)>>)
         \o safe_keyword(Tail(keyword))

RECURSIVE LikeLiteral(_)
\* The text a LIKE pattern without wildcards stands for: a backslash escapes
\* the character after it.
LikeLiteral(pattern) ==
    IF pattern = <<>> THEN <<>>
    ELSE IF Head(pattern) = "\\" /\ Len(pattern) > 1
         THEN <<pattern[2]>> \o LikeLiteral(Tail(Tail(pattern)))
         ELSE <<Head(pattern)>> \o LikeLiteral(Tail(pattern))

\* func.lower(column).like(f"%{safe_keyword}%")
LowerLike(column, safe) == Contains(ToLower(column), LikeLiteral(safe))

\* Mutant: a condition for every keyword, not for the first five.
KeywordCondition_AllKeywords(t, keywords) ==
    \E i \in DOMAIN keywords :
        \/ LowerLike(t.subject, safe_keyword(keywords[i]))
        \/ LowerLike(t.summary, safe_keyword(keywords[i]))

\* or_(*keyword_conditions) over keywords[:5]
KeywordCondition(t, keywords) ==
    \E i \in DOMAIN Take(keywords, MAX_KEYWORDS) :
        \/ LowerLike(t.subject, safe_keyword(keywords[i]))
        \/ LowerLike(t.summary, safe_keyword(keywords[i]))

\* [group.group_jid for group in select_from]
GroupJidsOf(select_from) == {select_from[i].group_jid : i \in DOMAIN select_from}

\* Mutant: the group filter is left out.
InScope_AnyGroup(t, group_jids) == t.group_jid # NULL

\* Mutant: topics without a group are taken to belong to every group.
InScope_OrphansPass(t, group_jids) == t.group_jid = NULL \/ t.group_jid \in group_jids

\* .where(KBTopic.group_jid != None) and .where(cast(KBTopic.group_jid, String).in_(group_jids))
InScope(t, group_jids) == t.group_jid # NULL /\ t.group_jid \in group_jids

Row(t, distance) == [topic |-> t, distance |-> distance]

IsInjective(f) == \A i, j \in DOMAIN f : i # j => f[i] # f[j]

Min(a, b) == IF a < b THEN a ELSE b

\* The rows the semantic query selects, before ORDER BY and LIMIT.
SemanticMatches(table, embedded_question, group_jids) ==
    {t \in table : /\ cosine_distance(t.embedding, embedded_question) < COSINE_DISTANCE_THRESHOLD
                   /\ InScope(t, group_jids)}

\* What the database may return for the semantic query: the matches ordered by
\* distance, ties in any order, cut at the limit.
SemanticResults(table, embedded_question, group_jids) ==
    LET m == SemanticMatches(table, embedded_question, group_jids)
        k == Min(Cardinality(m), MAX_TOPICS_TO_RETRIEVE)
        d(t) == cosine_distance(t.embedding, embedded_question)
    IN  { [i \in 1..k |-> Row(f[i], d(f[i]))] :
            f \in { g \in [1..k -> m] :
                      /\ IsInjective(g)
                      /\ \A i \in 1..(k - 1) : d(g[i]) <= d(g[i + 1])
                      /\ \A t \in m \ {g[i] : i \in 1..k} : \A i \in 1..k : d(g[i]) <= d(t) } }

\* The rows the keyword query selects, before LIMIT.
KeywordMatches(table, keywords, group_jids) ==
    {t \in table : KeywordCondition(t, keywords) /\ InScope(t, group_jids)}

\* What the database may return for the keyword query: it has no ORDER BY, so
\* any of the matches up to the limit, in any order.
KeywordResults(table, keywords, group_jids) ==
    LET m == KeywordMatches(table, keywords, group_jids)
        k == Min(Cardinality(m), KEYWORD_LIMIT)
    IN  { [i \in 1..k |-> Row(f[i], KEYWORD_DISTANCE)] :
            f \in {g \in [1..k -> m] : IsInjective(g)} }

HasId(all_topics, id) == \E i \in DOMAIN all_topics : all_topics[i].topic.id = id

\* all_topics[topic.id] = (topic, distance): a dict keeps the place of a key
\* that is set again.
DictSet(all_topics, row) ==
    IF HasId(all_topics, row.topic.id)
    THEN [i \in DOMAIN all_topics |->
            IF all_topics[i].topic.id = row.topic.id THEN row ELSE all_topics[i]]
    ELSE Append(all_topics, row)

RECURSIVE AddSemantic(_, _)
AddSemantic(all_topics, semantic_topics) ==
    IF semantic_topics = <<>> THEN all_topics
    ELSE AddSemantic(DictSet(all_topics, Head(semantic_topics)), Tail(semantic_topics))

\* Mutant: keyword rows are added without looking for the topic.
AddKeywordRow_NoDedup(all_topics, row) ==
    Append(all_topics, [topic |-> row.topic, distance |-> row.distance + KEYWORD_ONLY_PENALTY])

\* if topic.id not in all_topics: all_topics[topic.id] = (topic, distance + 0.1)
AddKeywordRow(all_topics, row) ==
    IF HasId(all_topics, row.topic.id)
    THEN all_topics
    ELSE Append(all_topics, Row(row.topic, row.distance + KEYWORD_ONLY_PENALTY))

RECURSIVE AddKeyword(_, _)
AddKeyword(all_topics, keyword_topics) ==
    IF keyword_topics = <<>> THEN all_topics
    ELSE AddKeyword(AddKeywordRow(all_topics, Head(keyword_topics)), Tail(keyword_topics))

\* The values of all_topics, in insertion order.
CombineResults(semantic_topics, keyword_topics) ==
    AddKeyword(AddSemantic(<<>>, semantic_topics), keyword_topics)

\* Insert a row behind every row that is not farther: sorted() is stable.
InsertByDistance(sorted, row) ==
    LET n == Cardinality({i \in DOMAIN sorted : sorted[i].distance <= row.distance})
    IN  SubSeq(sorted, 1, n) \o <<row>> \o SubSeq(sorted, n + 1, Len(sorted))

RECURSIVE SortFrom(_, _)
SortFrom(sorted, rest) ==
    IF rest = <<>> THEN sorted
    ELSE SortFrom(InsertByDistance(sorted, Head(rest)), Tail(rest))

\* sorted(all_topics.values(), key=lambda x: x[1])
SortedByDistance(rows) == SortFrom(<<>>, rows)

\* Mutant: the sorted list is returned whole.
FinalTopics_Uncut(semantic_topics, keyword_topics) ==
    SortedByDistance(CombineResults(semantic_topics, keyword_topics))

\* sorted_topics[:10]
FinalTopics(semantic_topics, keyword_topics) ==
    Take(SortedByDistance(CombineResults(semantic_topics, keyword_topics)), FINAL_LIMIT)

\* ---------------------------------------------------- quality and health
Confidence(num, den) == [num |-> num, den |-> den]

\* Mutant: the distance of a row is not looked at.
IsQualityRow_AnyDistance(row) ==
    /\ row.topic.subject # <<>> /\ row.topic.summary # <<>>
    /\ Len(Strip(row.topic.subject)) >= MIN_SUBJECT_LEN
    /\ Len(Strip(row.topic.summary)) >= MIN_SUMMARY_LEN

\* Mutant: the lengths are taken without strip().
IsQualityRow_Untrimmed(row) ==
    /\ row.distance < COSINE_DISTANCE_THRESHOLD
    /\ row.topic.subject # <<>> /\ row.topic.summary # <<>>
    /\ Len(row.topic.subject) >= MIN_SUBJECT_LEN
    /\ Len(row.topic.summary) >= MIN_SUMMARY_LEN

\* if distance >= threshold / if not subject or not summary / if too short: continue
IsQualityRow(row) ==
    /\ row.distance < COSINE_DISTANCE_THRESHOLD
    /\ row.topic.subject # <<>> /\ row.topic.summary # <<>>
    /\ Len(Strip(row.topic.subject)) >= MIN_SUBJECT_LEN
    /\ Len(Strip(row.topic.summary)) >= MIN_SUMMARY_LEN

\* f"{topic.subject}\n{topic.summary}"
FormatTopic(t) == t.subject \o <<"\n">> \o t.summary

RECURSIVE SumConfidence_Distance(_)
\* Mutant: the distance of a topic is summed in place of 1 - distance / threshold.
SumConfidence_Distance(rows) ==
    IF rows = <<>> THEN 0
    ELSE Head(rows).distance + SumConfidence_Distance(Tail(rows))

RECURSIVE SumConfidence(_)
\* total_confidence, times the threshold: max(0, 1 - distance / threshold) each
SumConfidence(rows) ==
    IF rows = <<>> THEN 0
    ELSE Max(0, COSINE_DISTANCE_THRESHOLD - Head(rows).distance) + SumConfidence(Tail(rows))

\* Mutant: the sum is divided by the length of the list given, not of the list kept.
filter_quality_topics_MeanOverAll(topics_with_distances) ==
    LET kept == SelectSeq(topics_with_distances, IsQualityRow)
    IN  [quality_topics |-> [i \in DOMAIN kept |-> FormatTopic(kept[i].topic)],
         confidence |->
            IF kept = <<>> THEN Confidence(0, 1)
            ELSE Confidence(SumConfidence(kept),
                            COSINE_DISTANCE_THRESHOLD * Len(topics_with_distances))]

\* (quality_topics, avg_confidence); the confidence is the fraction num / den.
filter_quality_topics(topics_with_distances) ==
    LET kept == SelectSeq(topics_with_distances, IsQualityRow)
    IN  [quality_topics |-> [i \in DOMAIN kept |-> FormatTopic(kept[i].topic)],
         confidence |->
            IF kept = <<>> THEN Confidence(0, 1)
            ELSE Confidence(SumConfidence(kept), COSINE_DISTANCE_THRESHOLD * Len(kept))]

\* generation_agent: the line added to the system prompt for a confidence,
\* `if confidence_score < 0.7: ... elif confidence_score < 0.5: ...`.
confidence_guidance(c) ==
    IF c.num * 100 < MODERATE_CONFIDENCE * c.den THEN "be_cautious"
    ELSE IF c.num * 100 < LOW_CONFIDENCE * c.den THEN "indicate_uncertainty"
    ELSE "none"

\* Mutant: the gate compares with 0.03.
BelowMinConfidence_Hundredth(c) == c.num * 1000 < MIN_CONFIDENCE * c.den

\* confidence_score < 0.3
BelowMinConfidence(c) == c.num * 100 < MIN_CONFIDENCE * c.den

\* select(func.count()).select_from(KBTopic).where(KBTopic.group_jid != None)
TopicCount(table) == Cardinality({t \in table : t.group_jid # NULL})

\* select(func.count()).select_from(Group).where(Group.managed == True)
ManagedGroupsCount(group_table) == Cardinality({g \in group_table : g.managed})

\* Mutant: the health check counts the orphans too.
check_kb_health_CountsOrphans(table, group_table) == Cardinality(table) # 0

\* check_kb_health when its queries succeed.
check_kb_health(table, group_table) == TopicCount(table) # 0

\* Mutant: the topic count is looked at before the managed groups.
HealthErrorKind_TopicsFirst(table, group_table, counted) ==
    IF ~counted THEN "kb_not_available"
    ELSE IF TopicCount(table) = 0 THEN "kb_empty"
    ELSE IF ManagedGroupsCount(group_table) = 0 THEN "kb_not_configured"
    ELSE "kb_not_available"

\* The message __call__ picks after a failed health check; counted tells
\* whether its own two counting queries succeeded.
HealthErrorKind(table, group_table, counted) ==
    IF ~counted THEN "kb_not_available"
    ELSE IF ManagedGroupsCount(group_table) = 0 THEN "kb_not_configured"
    ELSE IF TopicCount(table) = 0 THEN "kb_empty"
    ELSE "kb_not_available"

\* Group.get_related_community_groups: the other groups that share a
\* community key with the group.
RelatedCommunityGroups(group_table, group) ==
    {g \in group_table : /\ g.group_jid # group.group_jid
                         /\ g.community_keys \cap group.community_keys # {}}

\* The orders a set of rows may come back in.
Orderings(set) ==
    {f \in [1..Cardinality(set) -> set] : IsInjective(f)}

\* -------------------------------------------------------------------- state
VARIABLES
    kbtopic,                \* the kbtopic table
    groups,                 \* the group table
    message,                \* the Message __call__ is given
    pc,                     \* where the run of __call__ stands
    calls,                  \* the collaborators the run has invoked, in order
    sent,                   \* the send_message calls of the run, in order
    rephrased_response,     \* rephrased_response.output
    query_for_embedding,
    embedded_question,
    select_from,
    topics_with_distances,
    similar_topics,
    confidence_score,
    generation_response,    \* generation_response.output
    hs,                     \* the running call of hybrid_search
    fq,                     \* filter_quality_topics called on its own, on two lists
    mh,                     \* the webhook deliveries and the processed-message cache
    rx,                     \* the reaction table and the calls that write it
    gr                      \* the running call of get_user_groups_with_retry

vars == <<kbtopic, groups, fq, mh, rx, gr, generation_response, message, pc, calls, sent, rephrased_response, query_for_embedding,
          embedded_question, select_from, topics_with_distances, similar_topics,
          confidence_score, hs>>

\* select_from: None, or a list of groups.
NoneScope == [is_none |-> TRUE, list |-> <<>>]
Scope(list) == [is_none |-> FALSE, list |-> list]

\* The group_jid values a message comes with: none (a private chat), a group of
\* the table, a group that is not in the table.
MessageGroupJids == {NULL, "A@g.us", "X@g.us"}

\* One invocation of a collaborator: what was called, with what, and how it ended.
Call(fn, arg, result) == [fn |-> fn, arg |-> arg, result |-> result]
\* A message handed to send_message: one of the fixed texts, named by kind and
\* by the language picked for it, or the answer of the generator.
Msg(kind, text) == [kind |-> kind, he |-> HasHighChar(text), text |-> <<>>]

\* ----------------------------------------------- webhook and MessageHandler
\* datetime.now(timezone.utc) at the time a message is handled, in seconds.
Now == 1000

NoMessage == [id |-> NULL, text |-> None]
ChatJid == "A@g.us"
UserJid == "user@s.whatsapp.net"
BotJid == "bot@s.whatsapp.net"
\* from_: "<sender> in <chat>", or absent.
From(sender) == [sender |-> sender, chat |-> ChatJid]
NoFrom == [sender |-> NULL, chat |-> NULL]
FreshTimestamp == Now - MAX_MESSAGE_AGE
StaleTimestamp == Now - MAX_MESSAGE_AGE - 1

\* WhatsAppWebhookPayload: from_, message (id and text), timestamp, and whether
\* the message mentions the bot's jid.
Payload(from, msg, ts, mentioned) ==
    [from_ |-> from, message |-> msg, timestamp |-> ts, mentioned |-> mentioned]

PayloadTexts == {None, T_plain, T_question, T_everyone, T_summary, T_task}

Payloads ==
    {Payload(f, NoMessage, FreshTimestamp, FALSE) : f \in {NoFrom, From(UserJid), From(BotJid)}}
    \cup {Payload(From(s), [id |-> "m1", text |-> t], ts, m) :
            s \in {UserJid, BotJid}, t \in PayloadTexts,
            ts \in {FreshTimestamp, StaleTimestamp}, m \in BOOLEAN}
    \cup {Payload(NoFrom, [id |-> "m1", text |-> T_question], FreshTimestamp, TRUE),
          Payload(From(UserJid), [id |-> "m2", text |-> T_question], FreshTimestamp, TRUE),
          Payload(From(UserJid), [id |-> "m1", text |-> T_plain], FreshTimestamp + 1, FALSE)}

NoParsedMessage ==
    [message_id |-> NULL, text |-> None, chat_jid |-> NULL, sender_jid |-> NULL,
     timestamp |-> 0, mentioned |-> FALSE]

\* Message.from_webhook(payload): no Message for a payload without a message.
from_webhook(payload) ==
    IF payload.message = NoMessage THEN NoParsedMessage
    ELSE [message_id |-> payload.message.id, text |-> payload.message.text,
          chat_jid |-> payload.from_.chat, sender_jid |-> payload.from_.sender,
          timestamp |-> payload.timestamp, mentioned |-> payload.mentioned]

\* f"{message.chat_jid}_{message.message_id}_{message.timestamp}"
MessageKey(m) == <<m.chat_jid, m.message_id, m.timestamp>>

\* Mutant: the key is not recorded.
CacheAppend_Forget(cache, key) == cache

\* _processed_messages_cache.append(key) on a deque(maxlen=1000)
CacheAppend(cache, key) ==
    LET all == Append(cache, key)
    IN  IF Len(all) > CACHE_MAXLEN THEN Tail(all) ELSE all

\* Mutant: no key is ever found in the cache.
InCache_Never(cache, key) == FALSE

\* message_id in _processed_messages_cache
InCache(cache, key) == \E i \in DOMAIN cache : cache[i] = key

\* Mutant: the summarize phrases are looked for before the admin check.
_route_SummarizeFirst(text, allow_command_execution) ==
    LET message_lower == ToLower(text)
    IN  IF \E phrase \in tag_all_phrases : Contains(message_lower, phrase) THEN "tag_all"
        ELSE IF \E phrase \in summarize_phrases : Contains(message_lower, phrase) THEN "summarize"
        ELSE IF ~allow_command_execution THEN "admin_only"
        ELSE IF Contains(text, TaskTrigger) THEN "task"
        ELSE "ask_question"

\* Router._route(message, allow_command_execution)
_route(text, allow_command_execution) ==
    LET message_lower == ToLower(text)
    IN  IF \E phrase \in tag_all_phrases : Contains(message_lower, phrase) THEN "tag_all"
        ELSE IF ~allow_command_execution THEN "admin_only"
        ELSE IF \E phrase \in summarize_phrases : Contains(message_lower, phrase) THEN "summarize"
        ELSE IF Contains(text, TaskTrigger) THEN "task"
        ELSE "ask_question"

\* Router.__call__: the handler the match statement awaits for an intent.
RouteHandler(route) ==
    CASE route = "admin_only" -> "admin_only"
      [] route = "summarize" -> "summarize"
      [] route = "ask_question" -> "ask_knowledge_base"
      [] route = "about" -> "about"
      [] route = "tag_all" -> "tag_all_participants"
      [] route = "task" -> "task"
      [] OTHER -> "default_response"

\* Router.__call__(message, allow_command_execution): the handler invoked, or
\* none for a message without text.
RouterCall(m, allow_command_execution) ==
    IF m.text = None THEN "none"
    ELSE RouteHandler(_route(m.text, allow_command_execution))

\* allow_command_execution as MessageHandler._handle_bot_command passes it:
\* self.router(message) leaves the parameter at its default.
HandlerAllowsCommands == FALSE

\* One delivery of a payload to POST /webhook.
NewDelivery(payload) ==
    [pc |-> "webhook", payload |-> payload, response |-> NULL, raised |-> "none",
     handled |-> 0, key |-> <<>>, passed |-> FALSE, skipped |-> "none",
     processed_messages |-> {}, stored |-> FALSE, store_failed |-> FALSE,
     mention_checked |-> FALSE, routed |-> "none", sent |-> <<>>]

MhIdle == [cache |-> <<>>, stored |-> {}, deliveries |-> <<>>]

\* ------------------------------------------------------------- reactions
RxIdle ==
    [messages |-> {}, senders |-> {}, rows |-> {}, next_id |-> 1, log |-> <<>>]

\* ------------------------------------------- get_user_groups_with_retry
\* What one await of whatsapp.get_user_groups() gives: the groups, an
\* httpx.HTTPStatusError with the status of its response, or another exception.
Outcome(kind, status, value) == [kind |-> kind, status |-> status, value |-> value]
Outcomes ==
    {Outcome("ok", 200, g) : g \in {"groups_a", "groups_b"}}
    \cup {Outcome("HTTPStatusError", st, NULL) : st \in {429, 500, 404}}
    \cup {Outcome("Exception", 0, NULL)}

\* Mutant: every HTTP status error is retried.
ShouldRetry_Always(status_code) == TRUE

\* exc.response.status_code in [429, 500]
ShouldRetry(status_code) == status_code \in {429, 500}

\* wait_time = 2 ** attempt
WaitTime(attempt) == 2 ^ attempt

GrIdle ==
    [pc |-> "idle", max_retries |-> 0, attempt |-> 0, outcomes |-> <<>>,
     slept |-> <<>>, result |-> NULL, error |-> Outcome("none", 0, NULL)]

\* ------------------------------------------------------ state, at rest
FqIdle ==
    [pc |-> "idle", first |-> <<>>, second |-> <<>>,
     first_result |-> filter_quality_topics(<<>>),
     second_result |-> filter_quality_topics(<<>>)]

HsIdle ==
    [pc |-> "idle", embedded_question |-> 0, original_text |-> <<>>,
     select_from |-> NoneScope, keywords |-> <<>>, semantic_topics |-> <<>>,
     keyword_topics |-> <<>>, queries |-> 0, result |-> <<>>]

InitRun ==
    /\ calls = <<>>
    /\ sent = <<>>
    /\ rephrased_response = None
    /\ query_for_embedding = None
    /\ embedded_question = 0
    /\ select_from = NoneScope
    /\ topics_with_distances = <<>>
    /\ similar_topics = <<>>
    /\ confidence_score = Confidence(0, 1)
    /\ generation_response = None
    /\ hs = HsIdle
    /\ gr = GrIdle

Init ==
    /\ kbtopic \in KBTopicTables
    /\ groups \in GroupTables
    /\ message \in [text : Questions, group_jid : MessageGroupJids, group : {NoGroup}]
    /\ pc = "start"
    /\ fq = FqIdle
    /\ mh = MhIdle
    /\ rx = RxIdle
    /\ InitRun

\* --------------------------------------------------- hybrid_search, steps
hsLocals == <<kbtopic, groups, fq, mh, rx, gr, generation_response, message, pc, calls, sent, rephrased_response, query_for_embedding,
              embedded_question, select_from, topics_with_distances, similar_topics,
              confidence_score>>

\* Mutant: only None is refused.
ScopeMissing_NoneOnly(scope) == scope.is_none

\* not select_from
ScopeMissing(scope) == scope.is_none \/ scope.list = <<>>

\* if not select_from: raise ValueError(...); else build both queries.
HsEntry ==
    /\ hs.pc = "called"
    /\ IF ScopeMissing(hs.select_from)
       THEN hs' = [hs EXCEPT !.pc = "raised"]
       ELSE hs' = [hs EXCEPT !.pc = "semantic", !.keywords = Keywords(hs.original_text)]
    /\ UNCHANGED hsLocals

\* The end of hybrid_search: combine, sort, cut.
HsReturn(h, semantic_topics, keyword_topics) ==
    [h EXCEPT !.pc = "returned", !.semantic_topics = semantic_topics,
              !.keyword_topics = keyword_topics,
              !.result = FinalTopics(semantic_topics, keyword_topics)]

\* semantic_results = await self.session.exec(semantic_query)
HsSemantic ==
    /\ hs.pc = "semantic"
    /\ \/ hs' = [hs EXCEPT !.pc = "raised", !.queries = @ + 1]
       \/ \E rows \in SemanticResults(kbtopic, hs.embedded_question,
                                      GroupJidsOf(hs.select_from.list)) :
            LET h == [hs EXCEPT !.queries = @ + 1]
            IN  hs' = IF hs.keywords = <<>>
                      THEN HsReturn(h, rows, <<>>)
                      ELSE [h EXCEPT !.pc = "keyword", !.semantic_topics = rows]
    /\ UNCHANGED hsLocals

\* keyword_results = await self.session.exec(keyword_query)
HsKeyword ==
    /\ hs.pc = "keyword"
    /\ \/ hs' = [hs EXCEPT !.pc = "raised", !.queries = @ + 1]
       \/ \E rows \in KeywordResults(kbtopic, hs.keywords,
                                     GroupJidsOf(hs.select_from.list)) :
            hs' = HsReturn([hs EXCEPT !.queries = @ + 1], hs.semantic_topics, rows)
    /\ UNCHANGED hsLocals

HsCall(embedded, text, scope) ==
    [HsIdle EXCEPT !.pc = "called", !.embedded_question = embedded,
                   !.original_text = text, !.select_from = scope]

\* ------------------------------------------------------ __call__, by stage
\* await self.send_message(message.chat_jid, text, message.message_id); return.
\* The send may itself raise, and the exception leaves __call__.
SendAndReturn(kind) ==
    /\ sent' = Append(sent, Msg(kind, message.text))
    /\ \E delivered \in BOOLEAN : pc' = IF delivered THEN "done" ELSE "raised"

\* if message.text is None: return; truncate a long text.
Received ==
    /\ pc = "start"
    /\ IF message.text = None
       THEN pc' = "done" /\ UNCHANGED message
       ELSE /\ pc' = "health"
            /\ message' = [message EXCEPT !.text = Take(@, MAX_QUERY_LENGTH)]
    /\ UNCHANGED <<kbtopic, groups, fq, mh, rx, gr, generation_response, calls, sent, rephrased_response, query_for_embedding, embedded_question,
                   select_from, topics_with_distances, similar_topics, confidence_score, hs>>

\* if not await self.check_kb_health(): send the message for the cause; return.
\* checked: the queries of check_kb_health succeeded (it returns False when
\* one raises); counted: the queries of __call__ that look for the cause did.
HealthCheck ==
    /\ pc = "health"
    /\ \E checked, counted \in BOOLEAN :
          IF checked /\ check_kb_health(kbtopic, groups)
          THEN /\ calls' = Append(calls, Call("check_kb_health", <<>>, "healthy"))
               /\ pc' = "history"
               /\ UNCHANGED sent
          ELSE /\ calls' = Append(calls, Call("check_kb_health", [counted |-> counted],
                                               "unhealthy"))
               /\ SendAndReturn(HealthErrorKind(kbtopic, groups, counted))
    /\ UNCHANGED <<kbtopic, groups, fq, mh, rx, gr, generation_response, message, rephrased_response, query_for_embedding, embedded_question,
                   select_from, topics_with_distances, similar_topics, confidence_score, hs>>

\* my_jid = await self.whatsapp.get_my_jid(); the last 200 messages of the chat.
\* Neither call is guarded: a failure leaves __call__ as an exception.
HistoryFetch ==
    /\ pc = "history"
    /\ \E ok \in BOOLEAN :
          /\ calls' = Append(calls, Call("history", <<>>, IF ok THEN "ok" ELSE "raised"))
          /\ pc' = IF ok THEN "rephrase" ELSE "raised"
    /\ UNCHANGED <<kbtopic, groups, fq, mh, rx, gr, generation_response, message, sent, rephrased_response, query_for_embedding, embedded_question,
                   select_from, topics_with_distances, similar_topics, confidence_score, hs>>

\* Mutant: the rephrased text is used whatever validation says.
QueryForEmbedding_AlwaysRephrased(text, output) == output

\* Steps 1 and 2: the text to embed, given what the rephrasing agent returned.
QueryForEmbedding(text, output) ==
    IF ~validate_rephrased_query(text, output) THEN text ELSE output

\* MockResponse(message.text or "")
MockOutput(text) == IF Truthy(text) THEN text ELSE <<>>

\* Mutant: the call of the rephrasing agent is not guarded.
Rephrase_Unguarded ==
    /\ pc = "rephrase"
    /\ \/ \E output \in RephraserOutputs :
            /\ calls' = Append(calls, Call("rephrasing_agent", message.text, "ok"))
            /\ rephrased_response' = output
            /\ query_for_embedding' = QueryForEmbedding(message.text, output)
            /\ pc' = "embed"
       \/ /\ calls' = Append(calls, Call("rephrasing_agent", message.text, "raised"))
          /\ pc' = "raised"
          /\ UNCHANGED <<rephrased_response, query_for_embedding>>
    /\ UNCHANGED <<kbtopic, groups, fq, mh, rx, gr, generation_response, message, sent, embedded_question,
                   select_from, topics_with_distances, similar_topics, confidence_score, hs>>

\* Steps 1 and 2: rephrase the question, falling back to it when the agent fails.
Rephrase ==
    /\ pc = "rephrase"
    /\ \/ \E output \in RephraserOutputs :
            /\ calls' = Append(calls, Call("rephrasing_agent", message.text, "ok"))
            /\ rephrased_response' = output
       \/ \* except Exception: rephrased_response = MockResponse(message.text or "")
          /\ calls' = Append(calls, Call("rephrasing_agent", message.text, "raised"))
          /\ rephrased_response' = MockOutput(message.text)
    /\ query_for_embedding' = QueryForEmbedding(message.text, rephrased_response')
    /\ pc' = "embed"
    /\ UNCHANGED <<kbtopic, groups, fq, mh, rx, gr, generation_response, message, sent, embedded_question, select_from,
                   topics_with_distances, similar_topics, confidence_score, hs>>

\* Step 3: embedded_question = (await voyage_embed_text(..., [query_for_embedding]))[0]
Embed ==
    /\ pc = "embed"
    /\ \/ \E v \in QuestionVectors :
            /\ calls' = Append(calls, Call("voyage_embed_text", query_for_embedding, "ok"))
            /\ embedded_question' = v
            /\ pc' = "scope"
            /\ UNCHANGED sent
       \/ /\ calls' = Append(calls, Call("voyage_embed_text", query_for_embedding, "raised"))
          /\ SendAndReturn("embedding_issue")
          /\ UNCHANGED embedded_question
    /\ UNCHANGED <<kbtopic, groups, fq, mh, rx, gr, generation_response, message, rephrased_response, query_for_embedding, select_from,
                   topics_with_distances, similar_topics, confidence_score, hs>>

\* await self.session.get(Group, message.group_jid): the row, or None.
GetGroup(group_table, jid) ==
    IF \E g \in group_table : g.group_jid = jid
    THEN CHOOSE g \in group_table : g.group_jid = jid
    ELSE NoGroup

\* Mutant: every message is taken to come from a group.
HasGroupJid_Always(m) == TRUE

\* if message.group_jid:
HasGroupJid(m) == m.group_jid # NULL

\* Mutant: the scope is built whether or not the group was loaded.
GroupLoaded_Always(group) == TRUE

\* if message.group:
GroupLoaded(group) == group # NoGroup

\* Mutant: the scope is the list of related groups alone.
ScopeWith_RelatedOnly(group, related) == Scope(related)

\* Mutant: the related groups come before the group of the message.
ScopeWith_GroupLast(group, related) == Scope(related \o <<group>>)

\* select_from = [message.group]; select_from.extend(related_groups)
ScopeWith(group, related) == Scope(<<group>> \o related)

\* Step 4: the search scope.
ScopeResolve ==
    /\ pc = "scope"
    /\ IF HasGroupJid(message)
       THEN \/ \* session.get raises
               /\ calls' = Append(calls, Call("session.get", message.group_jid, "raised"))
               /\ pc' = "raised"
               /\ UNCHANGED <<message, select_from, sent>>
            \/ LET group == GetGroup(groups, message.group_jid)
                   got == Call("session.get", message.group_jid,
                               IF group = NoGroup THEN "none" ELSE "ok")
               IN  /\ message' = [message EXCEPT !.group = group]
                   /\ IF ~GroupLoaded(group)
                      THEN /\ calls' = Append(calls, got)
                           /\ SendAndReturn("could_not_load_group")
                           /\ UNCHANGED select_from
                      ELSE IF group.community_keys = {}
                      THEN /\ calls' = Append(calls, got)
                           /\ select_from' = ScopeWith(group, <<>>)
                           /\ pc' = "search"
                           /\ UNCHANGED sent
                      ELSE \/ \E related \in Orderings(RelatedCommunityGroups(groups, group)) :
                                /\ calls' = calls \o <<got, Call("get_related_community_groups",
                                                                  group.group_jid, "ok")>>
                                /\ select_from' = ScopeWith(group, related)
                                /\ pc' = "search"
                                /\ UNCHANGED sent
                           \/ \* the lookup raises
                              /\ calls' = calls \o <<got, Call("get_related_community_groups",
                                                                group.group_jid, "raised")>>
                              /\ select_from' = Scope(<<group>>)
                              /\ pc' = "raised"
                              /\ UNCHANGED sent
       ELSE /\ SendAndReturn("groups_only")
            /\ UNCHANGED <<message, select_from, calls>>
    /\ UNCHANGED <<kbtopic, groups, fq, mh, rx, gr, generation_response, rephrased_response, query_for_embedding, embedded_question,
                   topics_with_distances, similar_topics, confidence_score, hs>>

\* Step 5: topics_with_distances = await self.hybrid_search(embedded_question, message.text, select_from)
Search ==
    /\ pc = "search"
    /\ hs.pc = "idle"
    /\ hs' = HsCall(embedded_question, message.text, select_from)
    /\ calls' = Append(calls, Call("hybrid_search", select_from, "called"))
    /\ pc' = "searching"
    /\ UNCHANGED <<kbtopic, groups, fq, mh, rx, gr, generation_response, message, sent, rephrased_response, query_for_embedding, embedded_question,
                   select_from, topics_with_distances, similar_topics, confidence_score>>

\* Mutant: a failed search is taken for a search that found nothing.
SearchFailed_Never(h) == FALSE

\* except Exception as e: around the call of hybrid_search
SearchFailed(h) == h.pc = "raised"

\* Mutant: the empty quality list is left to the confidence gate.
NoQualityTopics_Never(topics) == FALSE

\* if len(similar_topics) == 0:
NoQualityTopics(topics) == Len(topics) = 0

\* Steps 5 to 8, from the return of hybrid_search to the next call out.
SearchReturn ==
    /\ pc = "searching"
    /\ hs.pc \in {"returned", "raised"}
    /\ IF SearchFailed(hs)
       THEN /\ SendAndReturn("search_trouble")
            /\ UNCHANGED <<topics_with_distances, similar_topics, confidence_score>>
       ELSE LET filtered == filter_quality_topics(hs.result)
            IN  /\ topics_with_distances' = hs.result
                /\ similar_topics' = filtered.quality_topics
                /\ confidence_score' = filtered.confidence
                /\ IF NoQualityTopics(filtered.quality_topics)
                   THEN SendAndReturn("nothing_relevant")
                   ELSE IF BelowMinConfidence(filtered.confidence)
                        THEN SendAndReturn("please_rephrase")
                        ELSE pc' = "generate" /\ UNCHANGED sent
    /\ UNCHANGED <<kbtopic, groups, fq, mh, rx, gr, generation_response, message, calls, rephrased_response, query_for_embedding, embedded_question,
                   select_from, hs>>

\* Steps 9 and 10: generate the answer and send it.
Generate ==
    /\ pc = "generate"
    /\ LET args == [query |-> message.text, topics |-> similar_topics,
                    confidence_score |-> confidence_score,
                    confidence_guidance |-> confidence_guidance(confidence_score)]
       IN  \/ \E output \in GeneratorOutputs :
                /\ calls' = Append(calls, Call("generation_agent", args, "ok"))
                /\ generation_response' = output
                /\ sent' = Append(sent, [kind |-> "answer", he |-> HasHighChar(output),
                                         text |-> output])
                /\ \E delivered \in BOOLEAN : pc' = IF delivered THEN "done" ELSE "raised"
           \/ /\ calls' = Append(calls, Call("generation_agent", args, "raised"))
              /\ SendAndReturn("generation_trouble")
              /\ UNCHANGED generation_response
    /\ UNCHANGED <<kbtopic, groups, fq, mh, rx, gr, message, rephrased_response, query_for_embedding, embedded_question,
                   select_from, topics_with_distances, similar_topics, confidence_score, hs>>

Next ==
    \/ Received
    \/ HealthCheck
    \/ HistoryFetch
    \/ Rephrase
    \/ Embed
    \/ ScopeResolve
    \/ Search
    \/ HsEntry
    \/ HsSemantic
    \/ HsKeyword
    \/ SearchReturn
    \/ Generate

Spec == Init /\ [][Next]_vars

\* ------------------------------------------- __call__ on a long question
\* The orchestrator is given a question longer than MAX_QUERY_LENGTH, over a
\* store of at most one topic.
InitLong ==
    /\ kbtopic \in {t \in SUBSET TopicRows : Cardinality(t) <= 1}
    /\ groups \in GroupTables
    /\ message \in [text : {Q_long}, group_jid : MessageGroupJids, group : {NoGroup}]
    /\ pc = "start"
    /\ fq = FqIdle
    /\ mh = MhIdle
    /\ rx = RxIdle
    /\ InitRun

LongSpec == InitLong /\ [][Next]_vars

\* --------------------------------------------- hybrid_search, called alone
\* The scopes hybrid_search is called with: None, the empty list, and lists of
\* one or two groups of the table.
ScopeLists(group_table) ==
    {NoneScope, Scope(<<>>)}
    \cup {Scope(<<g>>) : g \in group_table}
    \cup {Scope(<<g, h>>) : g, h \in group_table}

InitSearch ==
    /\ kbtopic \in KBTopicTables
    /\ groups \in GroupTables
    /\ message = [text |-> None, group_jid |-> NULL, group |-> NoGroup]
    /\ pc = "direct"
    /\ fq = FqIdle
    /\ mh = MhIdle
    /\ rx = RxIdle
    /\ InitRun

DirectCall ==
    /\ pc = "direct"
    /\ hs.pc = "idle"
    /\ \E v \in QuestionVectors, text \in SearchTexts, scope \in ScopeLists(groups) :
          hs' = HsCall(v, text, scope)
    /\ UNCHANGED hsLocals

NextSearch ==
    \/ DirectCall
    \/ HsEntry
    \/ HsSemantic
    \/ HsKeyword

SearchSpec == InitSearch /\ [][NextSearch]_vars

\* --------------------------------------- filter_quality_topics, called alone
\* The topics of the lists: one that passes the content checks, one whose
\* subject and summary are too short, and one whose summary is long enough only
\* with the blanks around it.
FilterTopics ==
    {t \in TopicRows : t.id \in {1, 7}} \cup {Topic(11, "A@g.us", S_db, M_padded, 0)}

\* The distances of the lists, on both sides of the threshold.
FilterDistances == {0, 10, 20, 40, 90}

\* A topic at two distances, the second not smaller than the first.
RowPairs ==
    UNION {{<<Row(t, d), Row(t, e)>> : e \in {x \in FilterDistances : d <= x}} :
           t \in FilterTopics, d \in FilterDistances}

\* Two lists of up to MaxRows rows that hold the same topics in the same order,
\* no distance of the second smaller than its distance in the first.
FilterInputs ==
    {[FqIdle EXCEPT !.pc = "called",
                    !.first = [i \in DOMAIN pairs |-> pairs[i][1]],
                    !.second = [i \in DOMAIN pairs |-> pairs[i][2]]] :
        pairs \in UNION {[1..n -> RowPairs] : n \in 0..MaxRows}}

fqLocals == <<kbtopic, groups, mh, rx, gr, generation_response, message, pc, calls, sent,
              rephrased_response, query_for_embedding, embedded_question, select_from,
              topics_with_distances, similar_topics, confidence_score, hs>>

InitFilter ==
    /\ kbtopic = {}
    /\ groups = {}
    /\ message = [text |-> None, group_jid |-> NULL, group |-> NoGroup]
    /\ pc = "filter"
    /\ fq \in FilterInputs
    /\ mh = MhIdle
    /\ rx = RxIdle
    /\ InitRun

\* quality_topics, confidence = self.filter_quality_topics(first)
FilterFirst ==
    /\ fq.pc = "called"
    /\ fq' = [fq EXCEPT !.pc = "first", !.first_result = filter_quality_topics(fq.first)]
    /\ UNCHANGED fqLocals

\* quality_topics, confidence = self.filter_quality_topics(second)
FilterSecond ==
    /\ fq.pc = "first"
    /\ fq' = [fq EXCEPT !.pc = "done", !.second_result = filter_quality_topics(fq.second)]
    /\ UNCHANGED fqLocals

NextFilter ==
    \/ FilterFirst
    \/ FilterSecond

FilterSpec == InitFilter /\ [][NextFilter]_vars

\* Either the orchestrator runs on a message, or hybrid_search is called alone.
KbInit == Init \/ InitSearch
KbNext == Next \/ DirectCall
KbSpec == KbInit /\ [][KbNext]_vars

\* ---------------------------------------- webhook and MessageHandler, steps
mhLocals == <<kbtopic, groups, fq, rx, gr, generation_response, message, pc, calls, sent,
              rephrased_response, query_for_embedding, embedded_question, select_from,
              topics_with_distances, similar_topics, confidence_score, hs>>

\* The group the webhook sends its test response to.
TestGroupJid == "120363401598328725@g.us"

\* What webhook() returns: "ok" at the end of its try block, and "ok" from its
\* except block when something in the try block raised.
WebhookReturn_Propagate(failed) == IF failed THEN "error" ELSE "ok"
WebhookReturn(failed) == IF failed THEN "ok" ELSE "ok"

\* The delivery ends: the endpoint responds.
Respond(dl, failed) == [dl EXCEPT !.pc = "done", !.response = WebhookReturn(failed)]

InitHandler ==
    /\ kbtopic = {}
    /\ groups = {}
    /\ message = [text |-> None, group_jid |-> NULL, group |-> NoGroup]
    /\ pc = "webhook"
    /\ fq = FqIdle
    /\ rx = RxIdle
    /\ mh \in [cache : {<<>>}, stored : {{}},
               deliveries : [1..MaxDeliveries -> {NewDelivery(p) : p \in Payloads}]]
    /\ InitRun

\* webhook(payload, handler), up to the call of the handler: the test response
\* for a message that holds the bot's number, then the handler for a payload
\* with a sender. `"..." in payload.message.text` raises TypeError on a message
\* without text; a failure of the test send is caught where it happens.
Webhook(d) ==
    LET dl == mh.deliveries[d]
        p == dl.payload
    IN  /\ dl.pc = "webhook"
        /\ IF p.from_ # NoFrom /\ p.message # NoMessage /\ p.message.text = None
           THEN mh' = [mh EXCEPT !.deliveries[d] =
                          Respond([dl EXCEPT !.raised = "TypeError"], TRUE)]
           ELSE \E send_ok \in BOOLEAN :
                  LET test == /\ p.from_ # NoFrom
                              /\ p.message # NoMessage
                              /\ Contains(p.message.text, BotNumber)
                      after == IF test
                               THEN [dl EXCEPT !.sent = Append(@, [to |-> TestGroupJid,
                                                                   kind |-> "test",
                                                                   ok |-> send_ok])]
                               ELSE dl
                  IN  /\ test \/ send_ok
                      /\ mh' = [mh EXCEPT !.deliveries[d] =
                                   IF p.from_ # NoFrom
                                   THEN [after EXCEPT !.pc = "handler", !.handled = @ + 1]
                                   ELSE Respond(after, FALSE)]
        /\ UNCHANGED mhLocals

\* MessageHandler.__call__, up to the age check: the message of the payload,
\* the duplicate check on the global cache and on the instance's own set, the
\* age of the message.
HandlerStart(d) ==
    LET dl == mh.deliveries[d]
        m == from_webhook(dl.payload)
    IN  /\ dl.pc = "handler"
        /\ IF m = NoParsedMessage
           THEN mh' = [mh EXCEPT !.deliveries[d] =
                          Respond([dl EXCEPT !.skipped = "no_message"], FALSE)]
           ELSE LET message_id == MessageKey(m)
                IN  IF InCache(mh.cache, message_id)
                    THEN mh' = [mh EXCEPT !.deliveries[d] =
                                   Respond([dl EXCEPT !.key = message_id,
                                                      !.skipped = "duplicate"], FALSE)]
                    ELSE IF message_id \in dl.processed_messages
                    THEN mh' = [mh EXCEPT !.cache = CacheAppend(@, message_id),
                                          !.deliveries[d] =
                                   Respond([dl EXCEPT !.key = message_id,
                                                      !.skipped = "duplicate"], FALSE)]
                    ELSE LET marked == [dl EXCEPT !.key = message_id, !.passed = TRUE,
                                                  !.processed_messages =
                                                      IF Cardinality(@ \cup {message_id}) > INSTANCE_CACHE_MAX
                                                      THEN {} ELSE @ \cup {message_id}]
                         IN  mh' = [mh EXCEPT !.cache = CacheAppend(@, message_id),
                                              !.deliveries[d] =
                                       IF Now - m.timestamp > MAX_MESSAGE_AGE
                                       THEN Respond([marked EXCEPT !.skipped = "too_old"], FALSE)
                                       ELSE [marked EXCEPT !.pc = "store"]]
        /\ UNCHANGED mhLocals

\* MessageHandler._store_message: nothing for a message the table already
\* holds; a failure of the database is logged and rolled back.
StoreMessage(d) ==
    LET dl == mh.deliveries[d]
        m == from_webhook(dl.payload)
    IN  /\ dl.pc = "store"
        /\ \E db_ok \in BOOLEAN :
             IF ~db_ok
             THEN mh' = [mh EXCEPT !.deliveries[d] =
                            [dl EXCEPT !.pc = "botcheck", !.store_failed = TRUE]]
             ELSE IF m.message_id \in mh.stored
             THEN mh' = [mh EXCEPT !.deliveries[d] = [dl EXCEPT !.pc = "botcheck"]]
             ELSE mh' = [mh EXCEPT !.stored = @ \cup {m.message_id},
                                   !.deliveries[d] =
                            [dl EXCEPT !.pc = "botcheck", !.stored = TRUE]]
        /\ UNCHANGED mhLocals

\* MessageHandler._is_bot_message: a message of the bot itself is skipped; when
\* get_my_jid fails the message counts as somebody else's.
IsBotMessage(d) ==
    LET dl == mh.deliveries[d]
        m == from_webhook(dl.payload)
    IN  /\ dl.pc = "botcheck"
        /\ \E jid_ok \in BOOLEAN :
             mh' = [mh EXCEPT !.deliveries[d] =
                       IF jid_ok /\ m.sender_jid = BotJid
                       THEN Respond([dl EXCEPT !.skipped = "bot"], FALSE)
                       ELSE [dl EXCEPT !.pc = "command"]]
        /\ UNCHANGED mhLocals

\* MessageHandler._handle_bot_command: a message that mentions the bot goes to
\* the router, called as self.router(message); every failure is logged here.
HandleBotCommand(d) ==
    LET dl == mh.deliveries[d]
        m == from_webhook(dl.payload)
    IN  /\ dl.pc = "command"
        /\ \E jid_ok \in BOOLEAN, send_ok \in BOOLEAN :
             LET routed == RouterCall(m, HandlerAllowsCommands)
                 checked == [dl EXCEPT !.mention_checked = TRUE]
             IN  /\ send_ok \/ (jid_ok /\ m.mentioned /\ routed = "admin_only")
                 /\ mh' = [mh EXCEPT !.deliveries[d] =
                       IF ~jid_ok
                       THEN Respond([dl EXCEPT !.raised = "get_my_jid"], FALSE)
                       ELSE IF ~m.mentioned
                       THEN Respond(checked, FALSE)
                       ELSE IF routed = "admin_only"
                       THEN Respond([checked EXCEPT
                                        !.routed = routed,
                                        !.raised = IF send_ok THEN @ ELSE "send_message",
                                        !.sent = Append(@, [to |-> m.chat_jid,
                                                            kind |-> "admin_only",
                                                            ok |-> send_ok])], FALSE)
                       ELSE Respond([checked EXCEPT !.routed = routed], FALSE)]
        /\ UNCHANGED mhLocals

NextHandler ==
    \/ \E d \in 1..MaxDeliveries : Webhook(d)
    \/ \E d \in 1..MaxDeliveries : HandlerStart(d)
    \/ \E d \in 1..MaxDeliveries : StoreMessage(d)
    \/ \E d \in 1..MaxDeliveries : IsBotMessage(d)
    \/ \E d \in 1..MaxDeliveries : HandleBotCommand(d)

HandlerSpec == InitHandler /\ [][NextHandler]_vars

\* ----------------------------------------------------------- reactions, steps
rxLocals == <<kbtopic, groups, fq, mh, gr, generation_response, message, pc, calls, sent,
              rephrased_response, query_for_embedding, embedded_question, select_from,
              topics_with_distances, similar_topics, confidence_score, hs>>

ReactionMessageIds == {"m1", "m2"}
ReactionSenders == {"u1@s.whatsapp.net", "u2@s.whatsapp.net"}
Emojis == {"thumbs_up", "heart"}
ReactionTimestamps == {1, 2}

\* A Reaction before it is stored: message_id, sender_jid, emoji, timestamp.
Reactions ==
    [message_id : ReactionMessageIds, sender_jid : ReactionSenders,
     emoji : Emojis, timestamp : ReactionTimestamps]

\* Webhook payloads store_reaction is called with: without a reaction, with a
\* reaction without emoji (emoji NULL), with a whole reaction.
NoReaction == [message_id |-> NULL, sender_jid |-> NULL, emoji |-> NULL, timestamp |-> 0]
ReactionPayloads ==
    {NoReaction}
    \cup {[r EXCEPT !.emoji = NULL] : r \in {x \in Reactions : x.timestamp = 1 /\ x.emoji = "heart"}}
    \cup Reactions

\* A row of the reaction table; None where a row is expected.
ReactionRow(id, r) ==
    [id |-> id, message_id |-> r.message_id, sender_jid |-> r.sender_jid,
     emoji |-> r.emoji, timestamp |-> r.timestamp]
NoRow == ReactionRow(0, NoReaction)

SamePair(row, r) == row.message_id = r.message_id /\ row.sender_jid = r.sender_jid

\* The foreign keys of the reaction table: message_id -> message.message_id,
\* sender_jid -> sender.jid.
ForeignKeysHold(db, r) == r.message_id \in db.messages /\ r.sender_jid \in db.senders

\* INSERT ... without the ON CONFLICT clause, on a table without the unique
\* index: a row is added each time.
UpsertRows_AlwaysInsert(rows, id, r) == rows \cup {ReactionRow(id, r)}

\* INSERT ... ON CONFLICT (message_id, sender_jid) DO UPDATE SET emoji =
\* excluded.emoji, timestamp = excluded.timestamp: the rows of the table after
\* the statement, id being the next value of the id sequence.
UpsertRows(rows, id, r) ==
    IF \E row \in rows : SamePair(row, r)
    THEN {IF SamePair(row, r)
          THEN [row EXCEPT !.emoji = r.emoji, !.timestamp = r.timestamp]
          ELSE row : row \in rows}
    ELSE rows \cup {ReactionRow(id, r)}

\* select(cls).where(message_id == ..., sender_jid == ...).first()
SelectReaction(rows, r) ==
    IF \E row \in rows : SamePair(row, r)
    THEN CHOOSE row \in rows : SamePair(row, r)
    ELSE NoRow

\* Reaction.upsert_reaction(session, reaction) on the database db: the database
\* after it and the row returned, or the failure of the statement on a foreign
\* key, which leaves the table as it was.
upsert_reaction(db, r) ==
    IF ~ForeignKeysHold(db, r)
    THEN [db |-> [db EXCEPT !.next_id = @ + 1], raised |-> TRUE, returned |-> NoRow]
    ELSE LET rows == UpsertRows(db.rows, db.next_id, r)
         IN  [db |-> [db EXCEPT !.rows = rows, !.next_id = @ + 1],
              raised |-> FALSE, returned |-> SelectReaction(rows, r)]

LogCall(db, fn, r, db_ok, warned, raised, returned) ==
    [db EXCEPT !.log = Append(@, [fn |-> fn, reaction |-> r, db_ok |-> db_ok,
                                  warned |-> warned, raised |-> raised,
                                  returned |-> returned, rows |-> db.rows])]

InitReaction ==
    /\ kbtopic = {}
    /\ groups = {}
    /\ message = [text |-> None, group_jid |-> NULL, group |-> NoGroup]
    /\ pc = "reaction"
    /\ fq = FqIdle
    /\ mh = MhIdle
    /\ rx \in [messages : {{"m1"}, ReactionMessageIds}, senders : {{}, ReactionSenders},
               rows : {{}}, next_id : {1}, log : {<<>>}]
    /\ InitRun

\* Reaction.upsert_reaction called on its own.
UpsertReaction(r) ==
    /\ Len(rx.log) < MaxUpserts
    /\ LET out == upsert_reaction(rx, r)
       IN  rx' = LogCall(out.db, "upsert_reaction", r, TRUE, FALSE, out.raised, out.returned)
    /\ UNCHANGED rxLocals

\* BaseHandler.store_reaction(payload): None for a payload without a reaction
\* and for one from_webhook refuses; inside a nested transaction the sender is
\* created when missing, a missing message is logged, and the reaction is
\* upserted. Any failure rolls the nested transaction back and returns None.
StoreReaction(r, db_ok) ==
    /\ Len(rx.log) < MaxUpserts
    /\ IF r = NoReaction \/ r.emoji = NULL
       THEN /\ db_ok
            /\ rx' = LogCall(rx, "store_reaction", r, db_ok, FALSE, r # NoReaction, NoRow)
       ELSE LET with_sender == [rx EXCEPT !.senders = @ \cup {r.sender_jid}]
                warned == r.message_id \notin rx.messages
                out == upsert_reaction(with_sender, r)
            IN  IF ~db_ok
                THEN rx' = LogCall(rx, "store_reaction", r, db_ok, FALSE, TRUE, NoRow)
                ELSE IF out.raised
                THEN rx' = LogCall([rx EXCEPT !.next_id = out.db.next_id],
                                   "store_reaction", r, db_ok, warned, TRUE, NoRow)
                ELSE rx' = LogCall(out.db, "store_reaction", r, db_ok, warned, FALSE,
                                   out.returned)
    /\ UNCHANGED rxLocals

NextReaction ==
    \/ \E r \in Reactions : UpsertReaction(r)
    \/ \E r \in ReactionPayloads, db_ok \in BOOLEAN : StoreReaction(r, db_ok)

ReactionSpec == InitReaction /\ [][NextReaction]_vars

\* ------------------------------------- validate_rephrased_query, called alone
InitValidate ==
    /\ kbtopic = {}
    /\ groups = {}
    /\ message \in [text : ValidateOriginals, group_jid : {NULL}, group : {NoGroup}]
    /\ pc = "validate"
    /\ fq = FqIdle
    /\ mh = MhIdle
    /\ rx = RxIdle
    /\ calls = <<>>
    /\ sent = <<>>
    /\ rephrased_response \in ValidateRephrased
    /\ query_for_embedding = None
    /\ embedded_question = 0
    /\ select_from = NoneScope
    /\ topics_with_distances = <<>>
    /\ similar_topics = <<>>
    /\ confidence_score = Confidence(0, 1)
    /\ generation_response = None
    /\ hs = HsIdle
    /\ gr = GrIdle

\* await self.validate_rephrased_query(original, rephrased)
Validate ==
    /\ pc = "validate"
    /\ pc' = "validated"
    /\ calls' = Append(calls, Call("validate_rephrased_query", rephrased_response,
                                   validate_rephrased_query(message.text, rephrased_response)))
    /\ UNCHANGED <<kbtopic, groups, fq, mh, rx, gr, generation_response, message, sent,
                   rephrased_response, query_for_embedding, embedded_question,
                   select_from, topics_with_distances, similar_topics,
                   confidence_score, hs>>

NextValidate == Validate

ValidateSpec == InitValidate /\ [][NextValidate]_vars

\* ------------------------------------ hybrid_search, the merge of two results
\* Topics of group A with ids of their own.
RankTopic(id) == Topic(id, "A@g.us", S_db, M_db, 0)

\* Results of the semantic query: up to MAX_TOPICS_TO_RETRIEVE rows ordered by
\* distance, all closer than the threshold; all at one distance, or farther
\* row by row.
RankSemantic ==
    {[i \in 1..n |-> Row(RankTopic(100 + i), d)] :
        n \in {0, 4, 9, 10, 11, MAX_TOPICS_TO_RETRIEVE}, d \in {10, 39}}
    \cup {[i \in 1..n |-> Row(RankTopic(100 + i), Min(39, 3 * (i - 1)))] :
            n \in {4, 9, 10, 11, MAX_TOPICS_TO_RETRIEVE}}

\* Results of the keyword query: up to KEYWORD_LIMIT rows at the keyword
\* distance, of topics the semantic query may have returned too, or of others.
RankKeyword ==
    {[i \in 1..k |-> Row(RankTopic(base + i), KEYWORD_DISTANCE)] :
        k \in 0..KEYWORD_LIMIT, base \in {100, 107, 200}}

InitRank ==
    /\ kbtopic = {}
    /\ groups = {}
    /\ message = [text |-> None, group_jid |-> NULL, group |-> NoGroup]
    /\ pc = "rank"
    /\ fq = FqIdle
    /\ mh = MhIdle
    /\ rx = RxIdle
    /\ calls = <<>>
    /\ sent = <<>>
    /\ rephrased_response = None
    /\ query_for_embedding = None
    /\ embedded_question = 0
    /\ select_from = NoneScope
    /\ topics_with_distances = <<>>
    /\ similar_topics = <<>>
    /\ confidence_score = Confidence(0, 1)
    /\ generation_response = None
    /\ hs \in {[HsIdle EXCEPT !.pc = "merge", !.semantic_topics = s, !.keyword_topics = k] :
                 s \in RankSemantic, k \in RankKeyword}
    /\ gr = GrIdle

\* hybrid_search from "Combine and deduplicate results" to its return.
Merge ==
    /\ hs.pc = "merge"
    /\ hs' = HsReturn(hs, hs.semantic_topics, hs.keyword_topics)
    /\ UNCHANGED hsLocals

RankSpec == InitRank /\ [][Merge]_vars

\* ------------------------------------- get_user_groups_with_retry, steps
grLocals == <<kbtopic, groups, fq, mh, rx, generation_response, message, pc, calls, sent,
              rephrased_response, query_for_embedding, embedded_question, select_from,
              topics_with_distances, similar_topics, confidence_score, hs>>

\* get_user_groups_with_retry(whatsapp, max_retries) is called; the default of
\* max_retries is 3.
InitRetry ==
    /\ kbtopic = {}
    /\ groups = {}
    /\ message = [text |-> None, group_jid |-> NULL, group |-> NoGroup]
    /\ pc = "retry"
    /\ fq = FqIdle
    /\ mh = MhIdle
    /\ rx = RxIdle
    /\ calls = <<>>
    /\ sent = <<>>
    /\ rephrased_response = None
    /\ query_for_embedding = None
    /\ embedded_question = 0
    /\ select_from = NoneScope
    /\ topics_with_distances = <<>>
    /\ similar_topics = <<>>
    /\ confidence_score = Confidence(0, 1)
    /\ generation_response = None
    /\ hs = HsIdle
    /\ gr \in {[GrIdle EXCEPT !.pc = "call", !.max_retries = n] : n \in 0..MaxRetries}

\* One pass of the for loop up to the end of its try statement: the groups are
\* returned, a 429 or 500 leads to the sleep, every other failure is raised.
Attempt ==
    /\ gr.pc = "call"
    /\ gr.attempt < gr.max_retries
    /\ \E o \in Outcomes :
          LET tried == [gr EXCEPT !.outcomes = Append(@, o)]
          IN  gr' = IF o.kind = "ok"
                    THEN [tried EXCEPT !.pc = "returned", !.result = o.value]
                    ELSE IF o.kind = "HTTPStatusError" /\ ShouldRetry(o.status)
                    THEN [tried EXCEPT !.pc = "sleep"]
                    ELSE [tried EXCEPT !.pc = "raised", !.error = o]
    /\ UNCHANGED grLocals

\* await asyncio.sleep(wait_time); continue
Backoff ==
    /\ gr.pc = "sleep"
    /\ gr' = [gr EXCEPT !.pc = "call",
                        !.slept = Append(@, WaitTime(gr.attempt)),
                        !.attempt = @ + 1]
    /\ UNCHANGED grLocals

\* The loop is over: raise httpx.HTTPStatusError("Request failed after all
\* retries", ..., response=httpx.Response(500))
AllRetriesFailed ==
    /\ gr.pc = "call"
    /\ gr.attempt >= gr.max_retries
    /\ gr' = [gr EXCEPT !.pc = "raised", !.error = Outcome("HTTPStatusError", 500, NULL)]
    /\ UNCHANGED grLocals

NextRetry ==
    \/ Attempt
    \/ Backoff
    \/ AllRetriesFailed

RetrySpec == InitRetry /\ [][NextRetry]_vars

\* Every await of the function completes: the client answers or raises, the
\* sleep ends.
RetryLiveSpec == RetrySpec /\ WF_vars(NextRetry)

\* ------------------------------------------------------------------ claims
Invoked(fn) == \E i \in DOMAIN calls : calls[i].fn = fn
Ended == pc \in {"done", "raised"}
Rows(seq) == {seq[i] : i \in DOMAIN seq}

\* The group_jids a question of the message's group may read: its own and
\* those of the groups that share a community key with it.
ReadableJids ==
    LET own == GetGroup(groups, message.group_jid)
    IN  {message.group_jid} \cup {g.group_jid : g \in RelatedCommunityGroups(groups, own)}

ReadableTexts == {FormatTopic(t) : t \in {u \in kbtopic : u.group_jid \in ReadableJids}}

\* C1  Group isolation: every topic either branch of hybrid_search returns, and
\* every topic of its result, belongs to a group of the scope it was called
\* with; in a run of the orchestrator the retrieved topics, the quality list
\* and the topics given to the generator come only from the asking group and
\* the groups that share a community key with it.
C1_GroupIsolation ==
    /\ \A row \in Rows(hs.semantic_topics) \cup Rows(hs.keyword_topics) \cup Rows(hs.result) :
          \E i \in DOMAIN hs.select_from.list :
              row.topic.group_jid = hs.select_from.list[i].group_jid
    /\ pc # "direct" =>
          /\ \A row \in Rows(topics_with_distances) : row.topic.group_jid \in ReadableJids
          /\ \A i \in DOMAIN similar_topics : similar_topics[i] \in ReadableTexts
          /\ \A i \in DOMAIN calls :
                calls[i].fn = "generation_agent" =>
                    \A j \in DOMAIN calls[i].arg.topics :
                        calls[i].arg.topics[j] \in ReadableTexts

\* A search from group A returned a topic while the table also holds a topic of
\* the unrelated group C that matches the question in both branches.
C1_Witness ==
    /\ pc = "generate"
    /\ message.group_jid = "A@g.us"
    /\ Len(topics_with_distances) > 0
    /\ \E t \in kbtopic :
          /\ t.group_jid = "C@g.us"
          /\ cosine_distance(t.embedding, embedded_question) < COSINE_DISTANCE_THRESHOLD
          /\ KeywordCondition(t, Keywords(message.text))

\* C2  Orphan exclusion: no topic without a group_jid is in the result of
\* hybrid_search or of either of its branches, whatever the scope, the
\* question and the distance.
C2_OrphanExclusion ==
    \A row \in Rows(hs.semantic_topics) \cup Rows(hs.keyword_topics) \cup Rows(hs.result) :
        row.topic.group_jid # NULL

\* hybrid_search returned topics although an orphan at distance 0 matched the
\* keywords of the question.
C2_Witness ==
    /\ hs.pc = "returned"
    /\ Len(hs.result) > 0
    /\ hs.keyword_topics # <<>>
    /\ \E t \in kbtopic :
          /\ t.group_jid = NULL
          /\ cosine_distance(t.embedding, hs.embedded_question) = 0
          /\ KeywordCondition(t, hs.keywords)

\* C3  Mandatory scope: a call of hybrid_search without a scope, or with an
\* empty one, runs no query on the topic store and returns nothing; the only
\* way it ends is the raised error.
C3_MandatoryScope ==
    (hs.pc # "idle" /\ (hs.select_from.is_none \/ Len(hs.select_from.list) = 0)) =>
        /\ hs.pc \in {"called", "raised"}
        /\ hs.queries = 0
        /\ hs.result = <<>>

\* hybrid_search raised on an empty list, with no query run.
C3_Witness ==
    /\ hs.pc = "raised"
    /\ ~hs.select_from.is_none
    /\ hs.select_from.list = <<>>
    /\ hs.queries = 0

\* C4  Private-chat rejection: for a message without a group_jid neither
\* hybrid_search nor the generator is ever invoked, and once scope resolution
\* has run the run has ended with the one 'only available in groups' message.
C4_PrivateChatRejection ==
    message.group_jid = NULL /\ pc # "direct" =>
        /\ ~Invoked("hybrid_search")
        /\ ~Invoked("generation_agent")
        /\ hs.pc = "idle"
        /\ (\E i \in DOMAIN calls : calls[i].fn = "voyage_embed_text" /\ calls[i].result = "ok")
           /\ pc # "scope"
           => /\ Ended
              /\ Len(sent) = 1
              /\ sent[1].kind = "groups_only"

C4_Witness ==
    /\ message.group_jid = NULL
    /\ pc = "done"
    /\ sent = <<[kind |-> "groups_only", he |-> TRUE, text |-> <<>>]>>

\* C5  Group load failure: when the message has a group_jid and loading its
\* Group gave no record, the run has ended with the one 'could not load
\* group' message and hybrid_search was not invoked.
C5_GroupLoadFailure ==
    (\E i \in DOMAIN calls : calls[i].fn = "session.get" /\ calls[i].result = "none") =>
        /\ message.group_jid # NULL
        /\ Ended
        /\ Len(sent) = 1
        /\ sent[1].kind = "could_not_load_group"
        /\ ~Invoked("hybrid_search")
        /\ ~Invoked("generation_agent")
        /\ hs.pc = "idle"

C5_Witness ==
    /\ message.group_jid = "X@g.us"
    /\ pc = "done"
    /\ Len(sent) = 1
    /\ sent[1].kind = "could_not_load_group"
    /\ kbtopic # {}

\* The rows of a list that pass the quality rule of the claim: closer than the
\* threshold, with a subject of 3 and a summary of 10 characters or more.
PassedQuality(rows) ==
    {i \in DOMAIN rows :
        /\ rows[i].distance < 40
        /\ Len(Strip(rows[i].topic.subject)) >= 3
        /\ Len(Strip(rows[i].topic.summary)) >= 10}

\* C6  Confidence gate: the generator is invoked only when a topic passed the
\* quality filter and the confidence is at least 0.3; when a topic passed and
\* the confidence is below 0.3 the run has ended with the one 'please
\* rephrase' message and the generator was not invoked. A single topic at
\* distance 0.39 gives the confidence 0.025 and is such a case.
C6_ConfidenceGate ==
    LET passed == PassedQuality(topics_with_distances)
    IN  /\ Invoked("generation_agent") \/ pc = "generate" =>
              /\ passed # {}
              /\ Len(similar_topics) = Cardinality(passed)
              /\ confidence_score.num * 10 >= 3 * confidence_score.den
        /\ (passed # {} /\ confidence_score.num * 10 < 3 * confidence_score.den) =>
              /\ ~Invoked("generation_agent")
              /\ Ended
              /\ Len(sent) = 1
              /\ sent[1].kind = "please_rephrase"
        /\ (Len(topics_with_distances) = 1 /\ topics_with_distances[1].distance = 39
            /\ passed # {}) =>
              /\ confidence_score.num * 40 = confidence_score.den
              /\ ~Invoked("generation_agent")
              /\ sent[1].kind = "please_rephrase"

C6_Witness ==
    /\ pc = "done"
    /\ Len(topics_with_distances) = 1
    /\ topics_with_distances[1].distance = 39
    /\ Len(similar_topics) = 1
    /\ sent = <<[kind |-> "please_rephrase", he |-> FALSE, text |-> <<>>]>>

UnavailableKinds == {"kb_not_configured", "kb_empty", "kb_not_available"}

\* C7  Empty knowledge base: when no topic of the store has a group_jid, a run
\* that came to the health check has ended there with exactly one 'knowledge
\* base unavailable' message, and the rephraser, the embedding provider,
\* hybrid_search and the generator were not called.
C7_EmptyKnowledgeBase ==
    ({t \in kbtopic : t.group_jid # NULL} = {} /\ Invoked("check_kb_health")) =>
        /\ Ended
        /\ Len(sent) = 1
        /\ sent[1].kind \in UnavailableKinds
        /\ Len(calls) = 1
        /\ calls[1].result = "unhealthy"
        /\ hs.pc = "idle"

\* The store holds an orphan only, and the run ended with the 'empty' message.
C7_Witness ==
    /\ kbtopic # {}
    /\ \A t \in kbtopic : t.group_jid = NULL
    /\ pc = "done"
    /\ Len(sent) = 1
    /\ sent[1].kind = "kb_empty"

\* C8  Unmanaged deployment: when no group is flagged managed, a run that came
\* to the health check has ended there with a 'knowledge base unavailable'
\* message and went on to no rephrasing, embedding or search, also when
\* eligible topics exist.
C8_UnmanagedStopsAtHealthCheck ==
    ({g \in groups : g.managed} = {} /\ Invoked("check_kb_health")) =>
        /\ Ended
        /\ Len(sent) = 1
        /\ sent[1].kind \in UnavailableKinds
        /\ Len(calls) = 1
        /\ hs.pc = "idle"

\* C9  Idempotent merge: the result of hybrid_search holds every topic id at
\* most once; a topic the semantic branch returned carries its semantic
\* distance, also when the keyword branch returned it too; a topic only the
\* keyword branch returned carries the keyword distance plus the penalty; and
\* no topic of either branch is lost while the result is not full.
C9_IdempotentMerge ==
    hs.pc = "returned" =>
        LET result == hs.result
            semantic == Rows(hs.semantic_topics)
            keyword == Rows(hs.keyword_topics)
        IN  /\ \A i, j \in DOMAIN result : i # j => result[i].topic.id # result[j].topic.id
            /\ \A i \in DOMAIN result :
                  IF \E row \in semantic : row.topic.id = result[i].topic.id
                  THEN /\ result[i] \in semantic
                       /\ result[i].distance =
                             cosine_distance(result[i].topic.embedding, hs.embedded_question)
                  ELSE /\ \E row \in keyword : row.topic = result[i].topic
                       /\ result[i].distance = 30 + 10
            /\ Len(result) < 10 =>
                  \A row \in semantic \cup keyword :
                      \E i \in DOMAIN result : result[i].topic = row.topic

\* The result holds a topic both branches returned and one only the keyword
\* branch returned.
C9_Witness ==
    /\ hs.pc = "returned"
    /\ \E i \in DOMAIN hs.result :
          /\ hs.result[i].topic \in {row.topic : row \in Rows(hs.semantic_topics)}
          /\ hs.result[i].topic \in {row.topic : row \in Rows(hs.keyword_topics)}
          /\ hs.result[i].distance < 30
    /\ \E i \in DOMAIN hs.result :
          /\ hs.result[i].topic \notin {row.topic : row \in Rows(hs.semantic_topics)}
          /\ hs.result[i].distance = 40

\* C10  Rephrase fallback: the text given to the embedding provider is the
\* original question when validation rejects what the rephraser returned,
\* and what the rephraser returned when validation accepts it; 'unclear', in
\* any case and with blanks around it, is rejected.
C10_RephraseFallback ==
    \A i \in DOMAIN calls :
        calls[i].fn = "voyage_embed_text" =>
            /\ calls[i].arg =
                  IF validate_rephrased_query(message.text, rephrased_response)
                  THEN rephrased_response ELSE message.text
            /\ rephrased_response \in {R_unclear, R_Unclear, R_short} =>
                  calls[i].arg = message.text
            /\ (rephrased_response = R_good /\ message.text = Q_db) =>
                  calls[i].arg = R_good

\* The rephraser answered 'unclear' and the question itself was embedded.
C10_Witness ==
    /\ rephrased_response = R_unclear
    /\ message.text = Q_db
    /\ \E i \in DOMAIN calls :
          /\ calls[i].fn = "voyage_embed_text"
          /\ calls[i].arg = Q_db
          /\ calls[i].result = "ok"

\* C11  Rephrase is never fatal: when the call of the rephrasing agent raised,
\* the run went on to the Embed stage without sending a message, and the text
\* it embeds is the original question.
C11_RephraseNeverFatal ==
    \A i \in DOMAIN calls :
        (calls[i].fn = "rephrasing_agent" /\ calls[i].result = "raised") =>
            /\ query_for_embedding = message.text
            /\ i = Len(calls) => (pc = "embed" /\ sent = <<>>)
            /\ i < Len(calls) =>
                  (calls[i + 1].fn = "voyage_embed_text" /\ calls[i + 1].arg = message.text)

\* The rephrasing agent raised, and the question itself was embedded.
C11_Witness ==
    /\ message.text = Q_db
    /\ \E i \in DOMAIN calls :
          /\ calls[i].fn = "rephrasing_agent"
          /\ calls[i].result = "raised"
          /\ i < Len(calls)
          /\ calls[i + 1].fn = "voyage_embed_text"
          /\ calls[i + 1].arg = Q_db
          /\ calls[i + 1].result = "ok"

\* C12  Exactly one reply: a run that has ended sent exactly one message, or
\* none when the text of the question is missing; no run sends a second
\* message, and once a message is sent the run has ended.
C12_ExactlyOneReply ==
    /\ Ended => Len(sent) = (IF message.text = None THEN 0 ELSE 1)
    /\ Len(sent) <= 1
    /\ Len(sent) = 1 => Ended

\* C13  No escaping failures: a run in which a call of a collaborator raised
\* ends with one message sent, a fallback message unless the call was the
\* rephrasing agent's, so that no failure leaves the run without a reply.
C13_NoEscapingFailures ==
    (Ended /\ \E i \in DOMAIN calls : calls[i].result = "raised") =>
        /\ Len(sent) = 1
        /\ (\E i \in DOMAIN calls :
               calls[i].result = "raised" /\ calls[i].fn # "rephrasing_agent") =>
                  sent[1].kind # "answer"

\* C14  Stage failure fallbacks: when the embedding call raised, the run has
\* ended with the one 'embedding' technical-issue message and neither the
\* search nor the generator was invoked; when hybrid_search raised and its
\* caller took over, the run has ended with the one 'search' technical-issue
\* message and the generator was not invoked; when the generator raised, the
\* run has ended with the one 'generation' technical-issue message.
C14_StageFailureFallbacks ==
    /\ (\E i \in DOMAIN calls :
           calls[i].fn = "voyage_embed_text" /\ calls[i].result = "raised") =>
          /\ Ended
          /\ Len(sent) = 1 /\ sent[1].kind = "embedding_issue"
          /\ ~Invoked("session.get")
          /\ ~Invoked("hybrid_search")
          /\ ~Invoked("generation_agent")
          /\ hs.pc = "idle"
    /\ (Invoked("hybrid_search") /\ hs.pc = "raised" /\ pc # "searching") =>
          /\ Ended
          /\ Len(sent) = 1 /\ sent[1].kind = "search_trouble"
          /\ ~Invoked("generation_agent")
          /\ similar_topics = <<>>
    /\ (\E i \in DOMAIN calls :
           calls[i].fn = "generation_agent" /\ calls[i].result = "raised") =>
          /\ Ended
          /\ Len(sent) = 1 /\ sent[1].kind = "generation_trouble"
          /\ calls[Len(calls)].fn = "generation_agent"

\* A query of hybrid_search raised in a run that had embedded the question and
\* resolved its scope, and the run ended with the 'search' message.
C14_Witness ==
    /\ pc = "done"
    /\ hs.pc = "raised"
    /\ hs.queries > 0
    /\ Len(sent) = 1
    /\ sent[1].kind = "search_trouble"

\* C15  Silent skip of unusable input: for a question whose text is missing or
\* empty no message is sent and no stage runs: no health check, no
\* rephrasing, no embedding, no search and no generation.
C15_SilentSkip ==
    (message.text = None \/ message.text = <<>>) =>
        /\ sent = <<>>
        /\ calls = <<>>
        /\ hs.pc = "idle"
        /\ pc \in {"start", "done"}

\* C16  Nothing relevant: when hybrid_search returned and none of the topics
\* it returned passes the quality filter, the run has ended with the one
\* 'nothing relevant found' message, not the 'please rephrase' one, the
\* confidence is 0 and the generator was not invoked.
C16_NothingRelevant ==
    (Invoked("hybrid_search") /\ hs.pc = "returned" /\ pc # "searching"
     /\ PassedQuality(hs.result) = {}) =>
        /\ Ended
        /\ Len(sent) = 1
        /\ sent[1].kind = "nothing_relevant"
        /\ similar_topics = <<>>
        /\ confidence_score.num = 0
        /\ ~Invoked("generation_agent")

\* hybrid_search returned a topic at the keyword distance only, none passed
\* the filter, and the run ended with the 'nothing relevant' message.
C16_Witness ==
    /\ pc = "done"
    /\ hs.pc = "returned"
    /\ Len(hs.result) > 0
    /\ topics_with_distances = hs.result
    /\ PassedQuality(hs.result) = {}
    /\ Len(sent) = 1
    /\ sent[1].kind = "nothing_relevant"

\* The calls of the generator in the run.
GenerationCalls == {i \in DOMAIN calls : calls[i].fn = "generation_agent"}

\* The distances of the topics of the store from the embedded question.
StoreDistances == {cosine_distance(t.embedding, embedded_question) : t \in kbtopic}

\* C17  Successful answer path: a run that has ended after a search that
\* returned, with a topic that passed the quality filter and a confidence of
\* 0.3 or more, invoked the generator exactly once, and when that call
\* succeeded the single message sent is its output; the quality list holds
\* the returned topics closer than the threshold only; a group whose three
\* topics are at 0.1, 0.2 and 0.9 from the question gives a quality list of 2
\* entries and a confidence above 0, as does the list of rows at these
\* distances given to filter_quality_topics.
C17_SuccessfulAnswerPath ==
    LET passed == PassedQuality(topics_with_distances)
        filtered == Invoked("hybrid_search") /\ hs.pc = "returned" /\ pc # "searching"
        t == CHOOSE u \in TopicRows : u.id = 1
        direct == filter_quality_topics(<<Row(t, 10), Row(t, 20), Row(t, 90)>>)
    IN  /\ (filtered /\ Ended /\ passed # {}
            /\ confidence_score.num * 10 >= 3 * confidence_score.den) =>
              /\ Cardinality(GenerationCalls) = 1
              /\ calls[Len(calls)].fn = "generation_agent"
              /\ calls[Len(calls)].result = "ok" =>
                    /\ Len(sent) = 1
                    /\ sent[1].kind = "answer"
                    /\ sent[1].text = generation_response
                    /\ generation_response \in GeneratorOutputs
        /\ filtered =>
              /\ Len(similar_topics) = Cardinality(passed)
              /\ \A j \in DOMAIN similar_topics :
                    \E i \in passed : similar_topics[j] = FormatTopic(topics_with_distances[i].topic)
        /\ (filtered /\ Cardinality(kbtopic) = 3 /\ StoreDistances = {10, 20, 90}
            /\ \A u \in kbtopic : u.group_jid = message.group_jid) =>
              /\ Len(similar_topics) = 2
              /\ confidence_score.num > 0
        /\ Len(direct.quality_topics) = 2
        /\ direct.confidence.num > 0

\* A group with topics at 0.1, 0.2 and 0.9 from the question: two passed the
\* filter, and the run ended with the answer of the generator as its message.
C17_Witness ==
    /\ pc = "done"
    /\ Cardinality(kbtopic) = 3
    /\ StoreDistances = {10, 20, 90}
    /\ \A u \in kbtopic : u.group_jid = message.group_jid
    /\ Len(similar_topics) = 2
    /\ Cardinality(GenerationCalls) = 1
    /\ sent = <<[kind |-> "answer", he |-> FALSE, text |-> A_answer]>>

\* "...\n\n[Response truncated due to length]"
TruncationNotice ==
    <<".", ".", ".", "\n", "\n", "[", "R", "e", "s", "p", "o", "n", "s",
      "e", " ", "t", "r", "u", "n", "c", "a", "t", "e", "d", " ", "d", "u",
      "e", " ", "t", "o", " ", "l", "e", "n", "g", "t", "h", "]">>

\* response_text[:4000] + notice when the text is longer, as Router.summarize
\* cuts its reply before sending it.
Truncated(text) ==
    IF Len(text) > MAX_RESPONSE_LENGTH
    THEN Take(text, MAX_RESPONSE_LENGTH) \o TruncationNotice
    ELSE text

\* C18  Send truncation: an answer longer than the length limit of a message
\* is sent cut to the limit with the truncation notice appended; no answer
\* sent is longer than the limit plus the notice.
C18_SendTruncation ==
    \A i \in DOMAIN sent :
        sent[i].kind = "answer" =>
            /\ Len(sent[i].text) <= MAX_RESPONSE_LENGTH + Len(TruncationNotice)
            /\ sent[i].text = Truncated(generation_response)

\* The second list holds the topics of the first in the same order, each at a
\* distance that is not smaller.
Dominates(first, second) ==
    /\ Len(first) = Len(second)
    /\ \A i \in DOMAIN first :
          /\ first[i].topic = second[i].topic
          /\ first[i].distance <= second[i].distance

\* The fraction a is at least the fraction b.
AtLeast(a, b) == a.num * b.den >= b.num * a.den

\* C19 as claimed  Confidence monotonicity: of two lists given to
\* filter_quality_topics with the same topics in the same order, no distance
\* of the first larger than in the second, the first gets a confidence that is
\* not smaller.
C19_ConfidenceMonotonicity ==
    (fq.pc = "done" /\ Dominates(fq.first, fq.second)) =>
        AtLeast(fq.first_result.confidence, fq.second_result.confidence)

\* Both lists have the same rows under the distance threshold.
SameRowsInReach(first, second) ==
    \A i \in DOMAIN first : first[i].distance < 40 <=> second[i].distance < 40

\* C19  Confidence monotonicity among lists that keep the same topics: of two
\* lists with the same topics in the same order, no distance of the first
\* larger than in the second, and the same rows under the distance threshold
\* in both, the first gets a confidence that is not smaller.
C19_MonotoneWhenSameRetained ==
    (fq.pc = "done" /\ Dominates(fq.first, fq.second)
     /\ SameRowsInReach(fq.first, fq.second)) =>
        AtLeast(fq.first_result.confidence, fq.second_result.confidence)

\* Two lists of two kept topics, one of them farther in the second list, and
\* the second list got the smaller confidence.
C19_Witness ==
    /\ fq.pc = "done"
    /\ Len(fq.first_result.quality_topics) = 2
    /\ Len(fq.second_result.quality_topics) = 2
    /\ fq.first[1].distance < fq.second[1].distance
    /\ fq.first[2].distance = fq.second[2].distance
    /\ ~AtLeast(fq.second_result.confidence, fq.first_result.confidence)

RECURSIVE SumOver(_, _)
\* The sum over the rows at the indices given of max(0, 0.4 - distance), in
\* hundredths.
SumOver(rows, indices) ==
    IF indices = {} THEN 0
    ELSE LET i == CHOOSE j \in indices : TRUE
         IN  Max(0, 40 - rows[i].distance) + SumOver(rows, indices \ {i})

\* The fraction c is the mean over the retained rows of max(0, 1 - distance /
\* threshold), 0 when no row is retained, and lies within [0, 1].
IsMeanOverRetained(c, rows) ==
    LET retained == PassedQuality(rows)
    IN  /\ c.den > 0
        /\ 0 <= c.num /\ c.num <= c.den
        /\ retained = {} => c.num = 0
        /\ retained # {} =>
              c.num * (40 * Cardinality(retained)) = SumOver(rows, retained) * c.den

\* C20  Confidence value: the confidence filter_quality_topics returns for a
\* list of rows with non-negative distances is the arithmetic mean over the
\* retained topics of max(0, 1 - distance/threshold), is 0 when no topic is
\* retained, and lies within [0, 1].
C20_ConfidenceValue ==
    /\ fq.pc \in {"first", "done"} =>
          IsMeanOverRetained(fq.first_result.confidence, fq.first)
    /\ fq.pc = "done" =>
          IsMeanOverRetained(fq.second_result.confidence, fq.second)

\* A list of two rows of which one was dropped for its distance, with a
\* confidence strictly between 0 and 1.
C20_Witness ==
    /\ fq.pc = "done"
    /\ Len(fq.second) = 2
    /\ Len(fq.second_result.quality_topics) = 1
    /\ fq.second[1].distance = 10
    /\ fq.second[2].distance = 90
    /\ fq.second_result.confidence.num * 4 = 3 * fq.second_result.confidence.den

\* C21  Message is read-only: no step of a run of the orchestrator changes
\* the text of the message it was given, also when the question is longer
\* than the maximum query length.
C21_MessageReadOnly == [][message'.text = message.text]_vars

\* A text holds one of the phrases Router._route looks for.
HasTriggerPhrase(text) ==
    LET message_lower == ToLower(text)
    IN  \/ \E phrase \in tag_all_phrases : Contains(message_lower, phrase)
        \/ \E phrase \in summarize_phrases : Contains(message_lower, phrase)
        \/ Contains(text, TaskTrigger)

Deliveries == {mh.deliveries[d] : d \in DOMAIN mh.deliveries}

\* A delivery MessageHandler handled to the end of _handle_bot_command: a
\* message of another user, not a duplicate, not too old, that mentions the bot
\* and holds no trigger phrase.
IsQuestionDelivery(dl) ==
    /\ dl.pc = "done"
    /\ dl.passed
    /\ dl.skipped = "none"
    /\ dl.mention_checked
    /\ dl.payload.mentioned
    /\ dl.payload.from_.sender = UserJid
    /\ dl.payload.message.text # None
    /\ ~HasTriggerPhrase(dl.payload.message.text)

\* C22: a fresh, non-duplicate message of another user that mentions the bot
\* and holds no tag-all, summarize or task phrase is handed by MessageHandler to
\* the knowledge-base orchestrator.
C22_QuestionReachesKnowledgeBase ==
    \A dl \in Deliveries : IsQuestionDelivery(dl) => dl.routed = "ask_knowledge_base"

\* The test response of a delivery was attempted and failed.
TestSendFailed(dl) ==
    \E i \in DOMAIN dl.sent : dl.sent[i].kind = "test" /\ ~dl.sent[i].ok

\* C25: the endpoint answers every payload with "ok", also when the test
\* response cannot be sent, when reading the payload raises, and when a step of
\* the message handler fails; a delivery that has not ended has no response.
C25_WebhookAcknowledges ==
    \A dl \in Deliveries :
        /\ dl.pc = "done" => dl.response = "ok"
        /\ dl.pc # "done" => dl.response = NULL

\* Two deliveries answered "ok": in one the test send failed and a later step
\* of the handler failed, in the other reading the text raised.
C25_Witness ==
    /\ \E dl \in Deliveries :
          /\ dl.response = "ok"
          /\ TestSendFailed(dl)
          /\ dl.handled = 1
          /\ dl.raised \in {"get_my_jid", "send_message"}
    /\ \E dl \in Deliveries : dl.response = "ok" /\ dl.raised = "TypeError"

\* The calls that upserted a reaction for the pair of r without failing.
UpsertsOf(r) ==
    {i \in DOMAIN rx.log : ~rx.log[i].raised /\ rx.log[i].returned # NoRow
                           /\ SamePair(rx.log[i].reaction, r)}

\* C23: the reaction table holds at most one row for a (message_id,
\* sender_jid) pair; the row has the emoji and the timestamp of the latest
\* upsert for the pair; an upsert for a pair the table holds adds no row; and
\* upserting a reaction a second time leaves the table as the first upsert
\* left it.
C23_ReactionUniqueness ==
    /\ \A a, b \in rx.rows : SamePair(a, b) => a = b
    /\ \A r \in Reactions :
          UpsertsOf(r) # {} =>
              LET last == rx.log[CHOOSE i \in UpsertsOf(r) : \A j \in UpsertsOf(r) : j <= i].reaction
              IN  \E row \in rx.rows : /\ SamePair(row, r)
                                       /\ row.emoji = last.emoji
                                       /\ row.timestamp = last.timestamp
    /\ \A i \in DOMAIN rx.log :
          (i > 1 /\ \E row \in rx.log[i - 1].rows : SamePair(row, rx.log[i].reaction))
              => Cardinality(rx.log[i].rows) = Cardinality(rx.log[i - 1].rows)
    /\ \A r \in Reactions :
          ForeignKeysHold(rx, r) =>
              LET once == upsert_reaction(rx, r).db
              IN  upsert_reaction(once, r).db.rows = once.rows

\* The same sender reacted twice to one message, with another emoji at another
\* time, and somebody else reacted too: two rows.
C23_Witness ==
    /\ Len(rx.log) = 3
    /\ ~rx.log[1].raised /\ ~rx.log[2].raised /\ ~rx.log[3].raised
    /\ SamePair(rx.log[1].reaction, rx.log[3].reaction)
    /\ ~SamePair(rx.log[1].reaction, rx.log[2].reaction)
    /\ rx.log[1].reaction.emoji # rx.log[3].reaction.emoji
    /\ rx.log[1].reaction.timestamp > rx.log[3].reaction.timestamp
    /\ Cardinality(rx.rows) = 2

\* C24: store_reaction for a reaction to a message the database does not hold
\* logs the warning, stores the reaction and returns the stored row.
C24_OrphanedReactionStored ==
    \A i \in DOMAIN rx.log :
        LET e == rx.log[i]
        IN  (/\ e.fn = "store_reaction"
             /\ e.db_ok
             /\ e.reaction \in Reactions
             /\ e.reaction.message_id \notin rx.messages)
            => /\ e.warned
               /\ e.returned # NoRow
               /\ e.returned \in e.rows

\* validate_rephrased_query was called on (message.text, rephrased_response)
\* and returned result.
Validated(result) ==
    /\ pc = "validated"
    /\ calls[Len(calls)].fn = "validate_rephrased_query"
    /\ calls[Len(calls)].result = result

\* The two strings share no word longer than two characters.
NoSharedWord(original, rephrased) ==
    IF Truthy(original) /\ Truthy(rephrased)
    THEN LongWords(original) \cap LongWords(rephrased) = {}
    ELSE TRUE

\* The plainer reasons to refuse a rephrased string: it is empty, shorter than
\* 3 characters after trimming, or one of the generic non-answers.
PlainlyUnusable(rephrased) ==
    \/ ~Truthy(rephrased)
    \/ Len(Strip(rephrased)) < MIN_REPHRASED_LEN
    \/ Strip(ToLower(rephrased)) \in generic_responses

\* C28: the rephrased string is refused exactly when it is empty, shorter than
\* 3 characters after trimming, a generic non-answer, or shares no word with
\* the original and is both fewer than 3 words and fewer than 10 characters
\* long.
C28_RephraseValidationRule ==
    pc = "validated" =>
        (Validated(FALSE) <=>
            \/ PlainlyUnusable(rephrased_response)
            \/ /\ NoSharedWord(message.text, rephrased_response)
               /\ Len(Split(rephrased_response)) < MIN_REPHRASED_WORDS
               /\ Len(rephrased_response) < MIN_REPHRASED_CHARS)

\* C28, as the code has it: the rephrased string is refused exactly when the
\* original is empty, or the rephrased string is empty, shorter than 3
\* characters after trimming or a generic non-answer, or it shares no word with
\* the original and is fewer than 3 words or fewer than 10 characters long.
C28_RefusedWhenEitherShort ==
    pc = "validated" =>
        (Validated(FALSE) <=>
            \/ ~Truthy(message.text)
            \/ PlainlyUnusable(rephrased_response)
            \/ /\ NoSharedWord(message.text, rephrased_response)
               /\ \/ Len(Split(rephrased_response)) < MIN_REPHRASED_WORDS
                  \/ Len(rephrased_response) < MIN_REPHRASED_CHARS)

\* Two words and more than 10 characters, none shared with the question:
\* refused.
C28_Witness ==
    /\ Validated(FALSE)
    /\ message.text = Q_db
    /\ rephrased_response = R_two_words
    /\ Len(R_two_words) >= MIN_REPHRASED_CHARS

\* The rule for keeping a (topic, distance) pair: the distance is below the
\* threshold, subject and summary are there, the trimmed subject has 3
\* characters or more and the trimmed summary 10 or more.
MeetsQualityRule(row) ==
    /\ row.distance < 40
    /\ Truthy(row.topic.subject)
    /\ Truthy(row.topic.summary)
    /\ Len(Strip(row.topic.subject)) >= 3
    /\ Len(Strip(row.topic.summary)) >= 10

\* quality_topics holds, in the order of the list given, one string for each
\* pair that meets the rule and nothing else.
IsQualityListOf(quality_topics, rows) ==
    LET retained == {i \in DOMAIN rows : MeetsQualityRule(rows[i])}
    IN  /\ Len(quality_topics) = Cardinality(retained)
        /\ \A i \in retained :
              quality_topics[Cardinality({j \in retained : j <= i})]
                  = rows[i].topic.subject \o <<"\n">> \o rows[i].topic.summary

\* C26: filter_quality_topics keeps a (topic, distance) pair if and only if
\* the distance is below the threshold, subject and summary are present, the
\* trimmed subject has at least 3 characters and the trimmed summary at least
\* 10; the kept topics stay in the order given and each gives one string.
C26_QualityFilterRule ==
    /\ fq.pc \in {"first", "done"} =>
          IsQualityListOf(fq.first_result.quality_topics, fq.first)
    /\ fq.pc = "done" =>
          IsQualityListOf(fq.second_result.quality_topics, fq.second)

\* A list of two rows: the first is dropped for its summary, which is long
\* enough only untrimmed, the second is kept.
C26_Witness ==
    /\ fq.pc = "first"
    /\ Len(fq.first) = 2
    /\ fq.first[1].topic.summary = M_padded
    /\ fq.first[1].distance = 0
    /\ fq.first[2].distance = 20
    /\ Len(fq.first_result.quality_topics) = 1
    /\ fq.first_result.quality_topics[1] = S_db \o <<"\n">> \o M_db

\* The rows of the result of hybrid_search that only its keyword query found.
KeywordOnlyRows(h) ==
    {i \in DOMAIN h.result :
        /\ \E j \in DOMAIN h.keyword_topics :
              h.keyword_topics[j].topic.id = h.result[i].topic.id
        /\ ~\E j \in DOMAIN h.semantic_topics :
              h.semantic_topics[j].topic.id = h.result[i].topic.id}

\* Subject and summary of a topic pass the content checks of the filter.
HasValidText(t) ==
    /\ Truthy(t.subject) /\ Truthy(t.summary)
    /\ Len(Strip(t.subject)) >= MIN_SUBJECT_LEN
    /\ Len(Strip(t.summary)) >= MIN_SUMMARY_LEN

\* C27: a topic only the keyword query found, with a valid subject and
\* summary, is returned at a distance at which it passes the quality filter, so
\* that it is in the quality list.
C27_KeywordOnlyCompetes ==
    hs.pc = "returned" =>
        \A i \in KeywordOnlyRows(hs) :
            HasValidText(hs.result[i].topic) =>
                /\ IsQualityRow(hs.result[i])
                /\ \E j \in DOMAIN filter_quality_topics(hs.result).quality_topics :
                      filter_quality_topics(hs.result).quality_topics[j]
                          = FormatTopic(hs.result[i].topic)

\* C29: a generator call with a confidence below 0.7 and not below 0.5 is told
\* to be cautious; with a confidence below 0.5 it is told to state its
\* uncertainty and ask for more specific details; at 0.7 or more nothing is
\* added to its instructions.
C29_ConfidenceGuidance ==
    \A i \in GenerationCalls :
        LET c == calls[i].arg.confidence_score
            guidance == calls[i].arg.confidence_guidance
        IN  /\ (c.num * 10 < 7 * c.den /\ c.num * 2 >= c.den) => guidance = "be_cautious"
            /\ c.num * 2 < c.den => guidance = "indicate_uncertainty"
            /\ c.num * 10 >= 7 * c.den => guidance = "none"

\* The failed health checks of the run.
FailedHealthChecks ==
    {i \in DOMAIN calls : calls[i].fn = "check_kb_health" /\ calls[i].result = "unhealthy"}

\* C30: after a failed health check one message is sent: the 'not
\* configured' text when no group is managed, otherwise the 'empty' text when
\* no topic has a group, otherwise the generic 'not available' text, which is
\* also the one sent when the counting queries fail.
C30_HealthMessageByCause ==
    \A i \in FailedHealthChecks :
        /\ Len(sent) = 1
        /\ sent[1].kind =
              IF ~calls[i].arg.counted THEN "kb_not_available"
              ELSE IF {g \in groups : g.managed} = {} THEN "kb_not_configured"
              ELSE IF {t \in kbtopic : t.group_jid # NULL} = {} THEN "kb_empty"
              ELSE "kb_not_available"

\* No group is managed and no topic has a group: the counting queries worked
\* and the run ended with the 'not configured' message.
C30_Witness ==
    /\ FailedHealthChecks # {}
    /\ calls[1].arg.counted
    /\ {g \in groups : g.managed} = {}
    /\ {t \in kbtopic : t.group_jid # NULL} = {}
    /\ pc = "done"
    /\ sent[1].kind = "kb_not_configured"

\* The merged set of a search: the rows of the semantic query, and the rows of
\* the keyword query for topics the semantic query did not return, at the
\* keyword distance plus the penalty.
MergedSet(h) ==
    Rows(h.semantic_topics)
    \cup {Row(row.topic, 30 + 10) :
            row \in {r \in Rows(h.keyword_topics) :
                       \A s \in Rows(h.semantic_topics) : s.topic.id # r.topic.id}}

\* C31: the list hybrid_search returns has at most 10 entries, in order of
\* non-decreasing distance, and they are the 10 closest entries of the merged
\* set: every merged entry left out is at least as far as every entry
\* returned.
C31_RankedCappedResult ==
    hs.pc = "returned" =>
        LET result == hs.result
            merged == MergedSet(hs)
        IN  /\ Len(result) <= 10
            /\ Len(result) = Min(10, Cardinality(merged))
            /\ \A i \in DOMAIN result : result[i] \in merged
            /\ \A i, j \in DOMAIN result : i # j => result[i] # result[j]
            /\ \A i, j \in DOMAIN result : i < j => result[i].distance <= result[j].distance
            /\ \A row \in merged \ Rows(result) :
                  \A i \in DOMAIN result : result[i].distance <= row.distance

\* Eleven semantic rows and three keyword-only rows: ten rows are returned,
\* the farthest semantic row and the keyword-only rows are left out.
C31_Witness ==
    /\ pc = "rank"
    /\ hs.pc = "returned"
    /\ Len(hs.semantic_topics) = 11
    /\ Cardinality(MergedSet(hs)) = 14
    /\ Len(hs.result) = 10
    /\ hs.result[1].distance = 0
    /\ hs.result[10].distance = 27

\* The places of the tokens of a question that are longer than 2 characters
\* and are no stop-words.
KeywordTokens(text) ==
    {i \in DOMAIN Split(text) :
        Len(Split(text)[i]) > 2 /\ ToLower(Split(text)[i]) \notin stop_words}

\* The first five of them, lower-cased.
FirstFiveKeywords(text) ==
    {ToLower(Split(text)[i]) :
        i \in {j \in KeywordTokens(text) :
                 Cardinality({k \in KeywordTokens(text) : k < j}) < 5}}

\* The topic holds the word in its subject or in its summary.
HoldsWord(t, word) ==
    Contains(ToLower(t.subject), word) \/ Contains(ToLower(t.summary), word)

\* C32: the keyword query looks for the first 5 tokens of the question that
\* are longer than 2 characters and no stop-words, and for nothing else; with
\* no such token no keyword query is executed and the result holds the
\* semantic matches only.
C32_KeywordBranch ==
    hs.pc = "returned" =>
        LET words == FirstFiveKeywords(hs.original_text)
            scope == GroupJidsOf(hs.select_from.list)
        IN  /\ \A row \in Rows(hs.keyword_topics) :
                  \E w \in words : HoldsWord(row.topic, w)
            /\ Len(hs.keyword_topics) < 5 =>
                  \A t \in kbtopic :
                      (t.group_jid \in scope /\ \E w \in words : HoldsWord(t, w))
                          => \E row \in Rows(hs.keyword_topics) : row.topic = t
            /\ words = {} =>
                  /\ hs.queries = 1
                  /\ hs.keyword_topics = <<>>
                  /\ hs.result = hs.semantic_topics

\* The question of six keywords, asked in the group of a topic that holds the
\* sixth only: the keyword query ran and did not return the topic.
C32_Witness ==
    /\ hs.pc = "returned"
    /\ hs.original_text = Q_many
    /\ Len(hs.keywords) = 6
    /\ hs.queries = 2
    /\ hs.keyword_topics = <<>>
    /\ \E t \in kbtopic : t.group_jid \in GroupJidsOf(hs.select_from.list)
                          /\ HoldsWord(t, ToLower(W_Lunch))

\* The scope of the run was resolved: the group of the message was loaded and
\* the lookup of its community, when there was one, returned.
ScopeResolved ==
    /\ select_from # NoneScope
    /\ ~\E i \in DOMAIN calls :
          calls[i].fn = "get_related_community_groups" /\ calls[i].result = "raised"

\* The groups of the table that share a community key with g, g left out.
CommunityOf(g) ==
    {h \in groups : h.group_jid # g.group_jid /\ h.community_keys \cap g.community_keys # {}}

\* C33: the resolved scope of a message whose group was loaded is that group
\* first; behind it come the groups the community lookup returned, each once
\* and no other group (n groups give a scope of n + 1), when the group has
\* community keys, and nothing when it has none.
C33_ScopeComposition ==
    ScopeResolved =>
        LET list == select_from.list
            own == message.group
            behind == {i \in DOMAIN list : i > 1}
        IN  /\ own \in groups
            /\ own.group_jid = message.group_jid
            /\ Len(list) >= 1
            /\ list[1] = own
            /\ own.community_keys = {} => Len(list) = 1
            /\ own.community_keys # {} =>
                  /\ Invoked("get_related_community_groups")
                  /\ Len(list) = Cardinality(CommunityOf(own)) + 1
                  /\ {list[i] : i \in behind} = CommunityOf(own)
            /\ \A i \in DOMAIN list : list[i] \in {own} \cup CommunityOf(own)

\* The group of the message shares a key with another group: a scope of two.
C33_Witness ==
    /\ ScopeResolved
    /\ pc = "search"
    /\ Len(select_from.list) = 2
    /\ select_from.list[1].group_jid = "A@g.us"
    /\ select_from.list[2].group_jid = "B@g.us"
    /\ message.group_jid = "A@g.us"

\* The calls of hybrid_search the orchestrator made.
SearchCalls == {i \in DOMAIN calls : calls[i].fn = "hybrid_search"}

\* C34: the scope the orchestrator hands to hybrid_search is never missing and
\* never empty, and its first group is the one with the group_jid of the
\* message; a search of an orchestrator run does not fail on a missing scope:
\* when it fails, a query has failed.
C34_ScopeResolvedBeforeSearch ==
    /\ \A i \in SearchCalls :
          /\ ~calls[i].arg.is_none
          /\ Len(calls[i].arg.list) >= 1
          /\ calls[i].arg.list[1].group_jid = message.group_jid
          /\ message.group_jid # NULL
    /\ (pc # "direct" /\ hs.pc # "idle") =>
          /\ SearchCalls # {}
          /\ ~ScopeMissing(hs.select_from)
          /\ hs.pc = "raised" => hs.queries >= 1

\* A search of the orchestrator, with a scope of one group, failed in its
\* first query.
C34_Witness ==
    /\ SearchCalls # {}
    /\ hs.pc = "raised"
    /\ hs.queries = 1
    /\ Len(hs.select_from.list) = 1
    /\ pc = "searching"

\* The deliveries of payloads that hold a message.
MessageDeliveries == {d \in DOMAIN mh.deliveries : mh.deliveries[d].payload.message # NoMessage}

\* The key MessageHandler builds for the payload of a delivery.
KeyOf(d) == MessageKey(from_webhook(mh.deliveries[d].payload))

\* Two deliveries of payloads with the same key.
SameKey(d, e) == d # e /\ KeyOf(d) = KeyOf(e)

\* A delivery was stored, checked for a mention, routed or answered by the
\* message handler.
Processed(dl) ==
    \/ dl.stored
    \/ dl.store_failed
    \/ dl.mention_checked
    \/ dl.routed # "none"
    \/ \E i \in DOMAIN dl.sent : dl.sent[i].kind # "test"

\* C35: of the deliveries of payloads with the same (chat_jid, message_id,
\* timestamp), whatever the order of their steps, at most one passes the
\* duplicate check; a delivery that did not pass it is neither stored nor
\* routed. The cache of 1000 keys evicts nothing within the deliveries of a run.
C35_DuplicateSuppression ==
    /\ Len(mh.cache) < CACHE_MAXLEN
    /\ \A d, e \in MessageDeliveries :
          SameKey(d, e) => ~(mh.deliveries[d].passed /\ mh.deliveries[e].passed)
    /\ \A d \in MessageDeliveries :
          ~mh.deliveries[d].passed => ~Processed(mh.deliveries[d])

\* Two deliveries with the same key have ended: one was stored and routed, the
\* other was skipped as a duplicate.
C35_Witness ==
    \E d, e \in MessageDeliveries :
        /\ SameKey(d, e)
        /\ mh.deliveries[d].pc = "done"
        /\ mh.deliveries[d].stored
        /\ mh.deliveries[d].routed # "none"
        /\ mh.deliveries[e].pc = "done"
        /\ mh.deliveries[e].skipped = "duplicate"

\* The handler of a delivery has got past its duplicate check.
PastDuplicateCheck(dl) == dl.pc \in {"store", "botcheck", "command", "done"} /\ dl.handled = 1 /\ dl.key # <<>>

\* C36: the key of a message is in the processed cache from the moment its
\* delivery passed the duplicate check, before the age check, the storage and
\* the routing; a delivery whose key is there because of another delivery,
\* also one that failed or was skipped, is skipped as a duplicate and stores
\* and routes nothing.
C36_MarkedBeforeProcessed ==
    /\ \A dl \in Deliveries :
          (dl.passed \/ Processed(dl) \/ dl.skipped \in {"too_old", "bot"}) =>
              /\ dl.passed
              /\ InCache(mh.cache, dl.key)
    /\ \A d, e \in MessageDeliveries :
          (SameKey(d, e) /\ mh.deliveries[d].passed /\ PastDuplicateCheck(mh.deliveries[e])) =>
              /\ mh.deliveries[e].skipped = "duplicate"
              /\ mh.deliveries[e].pc = "done"
              /\ ~Processed(mh.deliveries[e])

\* The first delivery of a message failed in the database and then in
\* get_my_jid; the second delivery of the message was skipped as a duplicate.
C36_Witness ==
    \E d, e \in MessageDeliveries :
        /\ SameKey(d, e)
        /\ mh.deliveries[d].store_failed
        /\ mh.deliveries[d].raised = "get_my_jid"
        /\ mh.deliveries[e].skipped = "duplicate"
        /\ mh.deliveries[e].pc = "done"

\* The message of a delivery is more than MAX_MESSAGE_AGE seconds old when it
\* is handled.
IsStale(dl) ==
    /\ dl.payload.message # NoMessage
    /\ Now - dl.payload.timestamp > MAX_MESSAGE_AGE

\* C37: a message more than 300 seconds old is not stored, not checked for a
\* mention and not routed, and no message is sent because of it.
C37_StaleMessageIgnored ==
    \A dl \in Deliveries :
        IsStale(dl) =>
            /\ ~dl.stored
            /\ ~dl.store_failed
            /\ ~dl.mention_checked
            /\ dl.routed = "none"
            /\ dl.sent = <<>>

\* What MessageHandler itself does with a message that is too old: nothing is
\* stored, checked or routed, and every message sent for it is the test
\* response of the endpoint.
StaleIgnoredByHandler ==
    \A dl \in Deliveries :
        IsStale(dl) =>
            /\ ~Processed(dl)
            /\ \A i \in DOMAIN dl.sent : dl.sent[i].kind = "test"

\* The router was called for the message of a delivery.
RouterCalled(dl) ==
    /\ dl.mention_checked
    /\ dl.payload.mentioned
    /\ dl.payload.message.text # None

\* The text holds '@everyone' or its Hebrew form, in any case of letters.
HoldsTagAll(text) == \E phrase \in {TagAllHe, TagAllEn} : Contains(ToLower(text), phrase)

\* The replies of the handlers in the messages sent for a delivery.
Replies(dl) == {i \in DOMAIN dl.sent : dl.sent[i].kind # "test"}

\* C38: called without the permission to execute commands, the router hands a
\* message that holds '@everyone' or its Hebrew form to tag-all, and answers
\* every other message that has a text with the admin-only reply and nothing
\* else; summarize, task and the knowledge base are never invoked.
C38_AdminEnforcement ==
    /\ ~HandlerAllowsCommands
    /\ \A dl \in Deliveries :
          RouterCalled(dl) =>
              /\ dl.routed \notin {"summarize", "task", "ask_knowledge_base"}
              /\ IF HoldsTagAll(dl.payload.message.text)
                 THEN dl.routed = "tag_all_participants"
                 ELSE /\ dl.routed = "admin_only"
                      /\ Cardinality(Replies(dl)) = 1
                      /\ \A i \in Replies(dl) : dl.sent[i].kind = "admin_only"
                                                /\ dl.sent[i].to = dl.payload.from_.chat

\* A daily-summary request got the admin-only reply.
C38_Witness ==
    \E dl \in Deliveries :
        /\ RouterCalled(dl)
        /\ dl.payload.message.text = T_summary
        /\ dl.routed = "admin_only"
        /\ Replies(dl) # {}

\* An '@everyone' message went to tag-all.
TagAllRouted ==
    \E dl \in Deliveries :
        /\ RouterCalled(dl)
        /\ dl.payload.message.text = T_everyone
        /\ dl.routed = "tag_all_participants"

\* C39: the endpoint has handed every payload with a sender to the message
\* handler exactly once when it answers, whether the payload holds a message
\* with a text, a message without a text, or no message.
C39_HandlerInvokedOnce ==
    \A dl \in Deliveries :
        /\ dl.handled <= 1
        /\ (dl.payload.from_ # NoFrom /\ dl.pc = "done") => dl.handled = 1
        /\ dl.payload.from_ = NoFrom => dl.handled = 0

\* Of the payloads with a sender, those with a text or without a message reach
\* the handler exactly once.
HandlerInvokedOnceWithText ==
    \A dl \in Deliveries :
        /\ dl.handled <= 1
        /\ (/\ dl.payload.from_ # NoFrom
            /\ dl.pc = "done"
            /\ (dl.payload.message = NoMessage \/ dl.payload.message.text # None)) => dl.handled = 1

\* The failure is one get_user_groups_with_retry tries again after.
IsRetryable(o) == o.kind = "HTTPStatusError" /\ o.status \in {429, 500}

\* The call of get_user_groups_with_retry is over.
RetryEnded == gr.pc \in {"returned", "raised"}

\* What holds of a call of get_user_groups_with_retry at every moment.
RetrySafety ==
    LET n == Len(gr.outcomes)
    IN  /\ n <= gr.max_retries
        /\ \A i \in 1..(n - 1) : IsRetryable(gr.outcomes[i])
        /\ \A i \in DOMAIN gr.slept : gr.slept[i] = 2 ^ (i - 1)
        /\ Len(gr.slept) <= n
        /\ gr.pc = "call" => Len(gr.slept) = n
        /\ gr.pc = "returned" <=> (n > 0 /\ gr.outcomes[n].kind = "ok")
        /\ gr.pc = "returned" => gr.result = gr.outcomes[n].value
        /\ (n > 0 /\ gr.outcomes[n].kind # "ok" /\ ~IsRetryable(gr.outcomes[n])) =>
              /\ gr.pc = "raised"
              /\ gr.error = gr.outcomes[n]
              /\ Len(gr.slept) = n - 1
        /\ (gr.pc = "raised" /\ \A i \in 1..n : IsRetryable(gr.outcomes[i])) =>
              /\ n = gr.max_retries
              /\ Len(gr.slept) = n
              /\ gr.error.kind = "HTTPStatusError"

\* C40: get_user_groups_with_retry awaits the client at most max_retries
\* times; it returns the first result the client gives; a failure other than
\* a 429 or 500 status is raised by the attempt it happened in; before the
\* attempt after a 429 or 500 it sleeps 2^attempt seconds; after max_retries
\* failures with 429 or 500 it raises an HTTP status error; and it always ends.
C40_BoundedRetry == []RetrySafety /\ <>RetryEnded

\* Called with max_retries 3, the function met 429, 500 and 429, slept 1, 2 and
\* 4 seconds and raised the HTTP status error.
C40_Witness ==
    /\ gr.max_retries = 3
    /\ Len(gr.outcomes) = 3
    /\ gr.outcomes[1].status = 429
    /\ gr.outcomes[2].status = 500
    /\ gr.outcomes[3].status = 429
    /\ gr.slept = <<1, 2, 4>>
    /\ gr.pc = "raised"
    /\ gr.error.kind = "HTTPStatusError"

====
